---- MODULE Spec2Model ----
(***************************************************************************)
(* A model of the Elastic release-note compiler: the Version order and     *)
(* VersionRange filter (version.py), the retrying page fetch               *)
(* (fetchers/base.py, fetchers/async_base.py) and the compile_product      *)
(* orchestration in its thread-pool form (compiler.py) and its coroutine   *)
(* form (async_compiler.py).                                               *)
(*                                                                         *)
(* The specifications share the variables:                                 *)
(*   Spec         one run from the constructor call to the return of       *)
(*                compile_product, both execution models                   *)
(*   SpecMain     one run under cli.main, with the default limits: the     *)
(*                user's interrupt and the closing of the clients          *)
(*   SpecProgress one compile_product call on a compiler of any of the     *)
(*                four classes, with and without a progress callback       *)
(*   SpecFetch    one fetch_page call with its retry loop                  *)
(*   SpecCache    the page cache of one modern fetch client under the      *)
(*                _get_cached_page calls of concurrent units and the       *)
(*                clear_cache calls of its holder                          *)
(*   SpecVersion  the pure functions of version.py and the fetcher choice, *)
(*                applied to inputs drawn by Init                          *)
(*   SpecModels   get_consolidated_section and add_version (models.py)     *)
(*   SpecEnrich   the enrichment steps of _fetch_complete_release          *)
(*   SpecLegacy   the legacy extractor (parsers/legacy.py)                 *)
(*   SpecModern   the modern extractor (parsers/modern.py)                 *)
(*   SpecMinors   the legacy client's discovery of the 8.x minors          *)
(***************************************************************************)
EXTENDS Integers, Sequences, FiniteSets, TLC

VARIABLES
    \* ---- compile_product (Spec) ----
    mode,            \* "thread" (ReleaseCompiler) or "async" (AsyncReleaseCompiler)
    product,         \* product key of the run
    start_version,   \* the start_version text given to compile_product
    end_version,     \* the end_version text given, [given |-> FALSE] when None
    fetch_calls,     \* calls made to the fetchers, each a network request or more
    max_workers,     \* max_workers / max_concurrent of the constructor
    start,           \* parsed start version
    end,             \* parsed end version, [given |-> FALSE] when None
    include_prereleases,
    pc,              \* position of compile_product
    all_versions,    \* result of discover_versions (descending list)
    target_versions, \* filtered list
    unit,            \* per target index: "unsubmitted" | "pending" | "running" | "finished"
    calls_made,      \* per target index: the fetch calls the unit has made
    resp,            \* per target index: the fetch responses the unit sees
    outcome,         \* per target index: result of _fetch_complete_release
    semaphore,       \* value of asyncio.Semaphore (async mode)
    idle_workers,    \* worker threads of the pool not running a unit (thread mode)
    done_queue,      \* finished units not yet consumed by as_completed
    as_completed_called, \* whether compile_product has reached as_completed
    finished_at_call,\* thread pool: units already over when as_completed was called
    completion_order,\* history: the units in the order they finished
    releases,        \* the releases list being built
    result,          \* what compile_product returned or raised
    callback,        \* whether a progress_callback was given to compile_product
    with_progress,   \* whether the compiler is of the ...WithProgress subclass
    progress,        \* history: the (completed, total) pairs the callback received
    interrupted,     \* whether the user's interrupt (SIGINT) has arrived
    at_interrupt,    \* history: the units' states when the interrupt arrived
    clients,         \* the product's fetch clients: "none" | "open" | "closed"
    discovery,       \* what the clients' fetch_available_versions answered
    \* ---- fetch_page (SpecFetch) ----
    flavour,         \* "sync" (BaseFetcher) or "async" (AsyncBaseFetcher)
    fstate,          \* "attempt" | "wait" | "returned" | "raised"
    attempt_number,  \* tenacity's retry_state.attempt_number
    history,         \* outcome of every attempt made so far
    fresult,         \* what fetch_page returned or raised
    \* ---- the page cache of a modern fetch client (SpecCache) ----
    cached_pages,    \* self._cached_pages: per page key, absent or the value stored
    call,            \* per requester: its _get_cached_page call, last or in progress
    requests,        \* number of calls made on the fetch client so far
    fetch_results,   \* history: per page key, how the fetch_page calls made ended
    cleared,         \* history: whether clear_cache has been called on the client
    \* ---- pure functions (SpecVersion) ----
    kind,            \* which function the state applies
    applied,         \* FALSE before the function was applied
    cmp_in,          \* <<a, b>>
    cmp_out,
    filt_in,         \* [start, end, vs]
    filt_out,
    sel_in,          \* [product, version]
    sel_out,
    parse_in,        \* the text given to Version.parse
    parse_out,       \* its result, str() of it and the parse of that
    \* ---- consolidation (SpecModels) ----
    cons_in,         \* [releases, section_type] of get_consolidated_section
    cons_out,        \* the list it returns
    cons_item,       \* a ConsolidatedItem made by from_release_item
    version_calls,           \* the versions passed to its add_version so far
    \* ---- enrichment (SpecEnrich) ----
    enr_in,          \* [fetcher, primary, breaking, deprecations, known_issues]
    enr_out,         \* the unit's result and the merge applied again
    \* ---- legacy extractor (SpecLegacy) ----
    page_in,         \* the elements of the page's content in document order
    page_out,        \* the sections parse_release_notes returns
    \* ---- modern extractor (SpecModern) ----
    mod_in,          \* [product, version, blocks] given to the extractor
    mod_out,         \* what the extractor returned
    \* ---- legacy minor discovery (SpecMinors) ----
    index_pages,     \* per minor above the last known, the answer to its probe
    lpc,             \* position of fetch_available_versions
    minors,          \* the minors list of _discover_all_minors
    next_minor_num,  \* the loop variable of the probing loop
    probes,          \* history: the minors probed so far, in order
    scan_pages,      \* history: the answer to each request of the scan, in order
    available        \* the versions fetch_available_versions returned

ovars == <<mode, product, start_version, end_version, fetch_calls, max_workers, start, end, include_prereleases, pc,
           all_versions, target_versions, unit, resp, outcome, semaphore,
           idle_workers, done_queue, completion_order, releases, result,
           calls_made, as_completed_called, finished_at_call,
           callback, with_progress, progress, interrupted, at_interrupt, clients, discovery>>
cvars == <<cached_pages, call, requests, fetch_results, cleared>>
fvars == <<flavour, fstate, attempt_number, history, fresult>>
version_io == <<cmp_in, cmp_out, filt_in, filt_out, sel_in, sel_out, parse_in, parse_out>>
models_io == <<cons_in, cons_out, cons_item, version_calls>>
enrich_io == <<enr_in, enr_out>>
legacy_io == <<page_in, page_out>>
modern_io == <<mod_in, mod_out>>
pvars == <<kind, applied, version_io, models_io, enrich_io, legacy_io, modern_io>>
lvars == <<index_pages, lpc, minors, next_minor_num, probes, scan_pages, available>>
vars == <<cvars, ovars, fvars, pvars, lvars>>

(***************************************************************************)
(* Bounds of the model                                                     *)
(***************************************************************************)
MaxMinor == 1        \* minors 0..MaxMinor in the comparison domain
MaxDigits == 2       \* length of a prerelease number's digit string
MaxLen == 3          \* length of the list given to filter_versions
MaxWorkers == 2      \* largest max_workers / max_concurrent tried
default_max_workers == 4        \* ReleaseCompiler.__init__: max_workers: int = 4
default_max_concurrent == 10    \* AsyncReleaseCompiler.__init__: max_concurrent: int = 10
MaxRequests == 3     \* calls made on one fetch client

(***************************************************************************)
(* Version (version.py)                                                    *)
(***************************************************************************)
\* Version.prerelease is None or a string. The strings modelled are a tag
\* ("", "alpha", "beta" or "rc") followed by digits, possibly none: '' is
\* Pre("", <<>>), 'rc1' is Pre("rc", <<1>>), 'alpha' is Pre("alpha", <<>>).
NoPre == [none |-> TRUE, tag |-> "", digits |-> <<>>]
Pre(tag, digits) == [none |-> FALSE, tag |-> tag, digits |-> digits]

\* if self.prerelease: neither None nor the empty string
has_prerelease(v) ==
    ~v.prerelease.none /\ (v.prerelease.tag # "" \/ v.prerelease.digits # <<>>)

Version(major, minor, patch, prerelease) ==
    [major |-> major, minor |-> minor, patch |-> patch, prerelease |-> prerelease]

Release(major, minor, patch) == Version(major, minor, patch, NoPre)

\* self.prerelease is not None
is_prerelease(v) == ~v.prerelease.none

RECURSIVE IntOf(_)
\* int(digits)
IntOf(ds) == IF ds = <<>> THEN 0 ELSE 10 * IntOf(SubSeq(ds, 1, Len(ds) - 1)) + ds[Len(ds)]

\* pre_order = {'alpha': 0, 'beta': 1, 'rc': 2}
pre_order(tag) ==
    CASE tag = "alpha" -> 0
      [] tag = "beta" -> 1
      [] tag = "rc" -> 2
      [] OTHER -> 0

\* the rank the tuple gives a release, above every prerelease tag
ReleaseRank == 3

comparison_tuple_mutant(v) ==
    IF has_prerelease(v) /\ v.prerelease.tag # "" /\ v.prerelease.digits # <<>>
    THEN <<v.major, v.minor, v.patch, pre_order(v.prerelease.tag), 0>>
    ELSE <<v.major, v.minor, v.patch, ReleaseRank, 0>>

\* Version._comparison_tuple: re.match(r'(alpha|beta|rc)(\d+)', prerelease)
\* needs a tag and at least one digit
comparison_tuple(v) ==
    IF /\ has_prerelease(v)
       /\ v.prerelease.tag \in {"alpha", "beta", "rc"}
       /\ v.prerelease.digits # <<>>
    THEN <<v.major, v.minor, v.patch, pre_order(v.prerelease.tag), IntOf(v.prerelease.digits)>>
    ELSE <<v.major, v.minor, v.patch, ReleaseRank, 0>>

RECURSIVE TupleLt(_, _)
\* Python's < on tuples of integers
TupleLt(s, t) ==
    IF s = <<>> THEN t # <<>>
    ELSE IF t = <<>> THEN FALSE
    ELSE IF Head(s) = Head(t) THEN TupleLt(Tail(s), Tail(t))
    ELSE Head(s) < Head(t)

\* Version.__lt__, Version.__eq__, Version.__hash__
VLt(a, b) == TupleLt(comparison_tuple(a), comparison_tuple(b))
VEq(a, b) == comparison_tuple(a) = comparison_tuple(b)
VHash(a) == comparison_tuple(a)
\* functools.total_ordering, derived from __lt__ and __eq__
VLe(a, b) == VLt(a, b) \/ VEq(a, b)
VGt(a, b) == ~VLt(a, b) /\ ~VEq(a, b)
VGe(a, b) == ~VLt(a, b)

RECURSIVE InsertSorted(_, _)
\* position of x in an ascending list: after every element not greater than x
InsertSorted(x, s) ==
    IF s = <<>> THEN <<x>>
    ELSE IF VLt(x, Head(s)) THEN <<x>> \o s
    ELSE <<Head(s)>> \o InsertSorted(x, Tail(s))

RECURSIVE Sorted(_)
\* sorted(list of Version): stable and ascending
Sorted(s) ==
    IF s = <<>> THEN <<>>
    ELSE InsertSorted(s[Len(s)], Sorted(SubSeq(s, 1, Len(s) - 1)))

RECURSIVE Reversed(_)
Reversed(s) == IF s = <<>> THEN <<>> ELSE Reversed(Tail(s)) \o <<Head(s)>>

(***************************************************************************)
(* Version.parse and Version.__str__ (version.py)                          *)
(* A text is the sequence of its characters.                               *)
(***************************************************************************)
DigitChars == <<"0", "1", "2", "3", "4", "5", "6", "7", "8", "9">>
UpperLetters == <<"A", "B", "C", "D", "E", "F", "G", "H", "I", "J", "K", "L", "M",
                  "N", "O", "P", "Q", "R", "S", "T", "U", "V", "W", "X", "Y", "Z",
                  "À", "Á", "Â", "Ã", "Ä", "Å", "Æ", "Ç", "È", "É", "Ê", "Ë", "Ì",
                  "Í", "Î", "Ï", "Ð", "Ñ", "Ò", "Ó", "Ô", "Õ", "Ö", "Ø", "Ù", "Ú",
                  "Û", "Ü", "Ý", "Þ">>
LowerLetters == <<"a", "b", "c", "d", "e", "f", "g", "h", "i", "j", "k", "l", "m",
                  "n", "o", "p", "q", "r", "s", "t", "u", "v", "w", "x", "y", "z",
                  "à", "á", "â", "ã", "ä", "å", "æ", "ç", "è", "é", "ê", "ë", "ì",
                  "í", "î", "ï", "ð", "ñ", "ò", "ó", "ô", "õ", "ö", "ø", "ù", "ú",
                  "û", "ü", "ý", "þ">>
\* the characters str.strip and \s take for whitespace among those a text of
\* the model holds (code points 0 to 255): space, \n, \t, \r, \f, the
\* vertical tab, the separators 0x1c to 0x1f, the next-line character 0x85
\* and the no-break space 0xa0
Whitespace == {" ", "\n", "\t", "\r", "\f", "", "", "", "", "",
               "", " "}

\* \d
IsDigit(c) == \E i \in 1..Len(DigitChars) : DigitChars[i] = c
DigitVal(c) == (CHOOSE i \in 1..Len(DigitChars) : DigitChars[i] = c) - 1

\* str.lower, one character and a whole text: the letters with a lower-case
\* form among the code points 0 to 255 are A to Z and the accented capitals
lower_char(c) ==
    IF \E i \in 1..Len(UpperLetters) : UpperLetters[i] = c
    THEN LowerLetters[CHOOSE i \in 1..Len(UpperLetters) : UpperLetters[i] = c]
    ELSE c
lower(s) == [i \in 1..Len(s) |-> lower_char(s[i])]

RECURSIVE lstrip(_)
lstrip(s) == IF s # <<>> /\ Head(s) \in Whitespace THEN lstrip(Tail(s)) ELSE s
RECURSIVE rstrip(_)
rstrip(s) ==
    IF s # <<>> /\ s[Len(s)] \in Whitespace THEN rstrip(SubSeq(s, 1, Len(s) - 1)) ELSE s
\* str.strip
strip(s) == rstrip(lstrip(s))

\* int(text of digits)
int(s) == IntOf([i \in 1..Len(s) |-> DigitVal(s[i])])

RECURSIVE int_to_chars(_)
\* f"{n}" of a non-negative integer
int_to_chars(n) ==
    IF n < Len(DigitChars) THEN <<DigitChars[n + 1]>>
    ELSE int_to_chars(n \div Len(DigitChars)) \o <<DigitChars[(n % Len(DigitChars)) + 1]>>

\* the alternation (alpha|beta|rc) of VERSION_PATTERN
PrereleaseTags == {"alpha", "beta", "rc"}
tag_chars(tag) ==
    CASE tag = "alpha" -> <<"a", "l", "p", "h", "a">>
      [] tag = "beta" -> <<"b", "e", "t", "a">>
      [] tag = "rc" -> <<"r", "c">>
      [] OTHER -> <<>>

RECURSIVE digits_end(_, _)
\* the index after the greedy run \d* that starts at index i
digits_end(s, i) == IF i <= Len(s) /\ IsDigit(s[i]) THEN digits_end(s, i + 1) ELSE i

tag_at_mutant(s, k) ==
    LET fits(t) == /\ k + Len(tag_chars(t)) - 1 <= Len(s)
                   /\ SubSeq(s, k, k + Len(tag_chars(t)) - 1) = tag_chars(t)
    IN  IF \E t \in PrereleaseTags : fits(t)
        THEN CHOOSE t \in PrereleaseTags : fits(t) ELSE ""

\* the tag that (alpha|beta|rc) matches at index k under re.IGNORECASE, "" if none
tag_at(s, k) ==
    LET fits(t) == /\ k + Len(tag_chars(t)) - 1 <= Len(s)
                   /\ lower(SubSeq(s, k, k + Len(tag_chars(t)) - 1)) = tag_chars(t)
    IN  IF \E t \in PrereleaseTags : fits(t)
        THEN CHOOSE t \in PrereleaseTags : fits(t) ELSE ""

NoMatch == [matched |-> FALSE, groups |-> <<<<>>, <<>>, <<>>, <<>>, <<>>>>]

\* VERSION_PATTERN.match(t):
\*   ^(\d+)\.(\d+)\.(\d+)(?:[-.]?(alpha|beta|rc)(\d+))?$
\* Each \d+ is followed by a character that is no digit, so only the greedy
\* run can match. $ matches at the end of the text and before a newline
\* that ends it.
VERSION_PATTERN_match(t) ==
    LET e1 == digits_end(t, 1)
        e2 == digits_end(t, e1 + 1)
        e3 == digits_end(t, e2 + 1)
        numbers == /\ e1 > 1 /\ e1 <= Len(t) /\ t[e1] = "."
                   /\ e2 > e1 + 1 /\ e2 <= Len(t) /\ t[e2] = "."
                   /\ e3 > e2 + 1
        k == IF e3 <= Len(t) /\ t[e3] \in {"-", "."} THEN e3 + 1 ELSE e3
        tag == tag_at(t, k)
        n == k + Len(tag_chars(tag))
        e5 == digits_end(t, n)
        g1 == SubSeq(t, 1, e1 - 1)
        g2 == SubSeq(t, e1 + 1, e2 - 1)
        g3 == SubSeq(t, e2 + 1, e3 - 1)
        at_end(e) == e = Len(t) + 1 \/ (e = Len(t) /\ t[e] = "\n")
    IN  IF ~numbers THEN NoMatch
        ELSE IF at_end(e3)
        THEN [matched |-> TRUE, groups |-> <<g1, g2, g3, <<>>, <<>>>>]
        ELSE IF tag # "" /\ e5 > n /\ at_end(e5)
        THEN [matched |-> TRUE,
              groups |-> <<g1, g2, g3, SubSeq(t, k, n - 1), SubSeq(t, n, e5 - 1)>>]
        ELSE NoMatch

\* the tag a lower-cased group 4 spells
tag_of(chars) == CHOOSE t \in PrereleaseTags : tag_chars(t) = chars

\* Version.parse: the Version, or ValueError
ParseError == [ok |-> FALSE, version |-> Release(0, 0, 0)]
Parsed(v) == [ok |-> TRUE, version |-> v]

parse(version_str) ==
    LET match == VERSION_PATTERN_match(strip(version_str))
        g == match.groups
    IN  IF ~match.matched THEN ParseError
        ELSE Parsed(Version(int(g[1]), int(g[2]), int(g[3]),
                            IF g[4] # <<>>
                            THEN Pre(tag_of(lower(g[4])),
                                     [i \in 1..Len(g[5]) |-> DigitVal(g[5][i])])
                            ELSE NoPre))

to_string_mutant(v) ==
    int_to_chars(v.major) \o <<".">> \o int_to_chars(v.minor) \o <<".">>
        \o int_to_chars(v.patch)

\* Version.__str__
to_string(v) ==
    LET base == int_to_chars(v.major) \o <<".">> \o int_to_chars(v.minor) \o <<".">>
                    \o int_to_chars(v.patch)
    IN  IF has_prerelease(v)
        THEN base \o <<"-">> \o tag_chars(v.prerelease.tag)
                  \o [i \in 1..Len(v.prerelease.digits) |->
                          DigitChars[v.prerelease.digits[i] + 1]]
        ELSE base

(***************************************************************************)
(* VersionRange (version.py)                                               *)
(***************************************************************************)
NoEnd == [given |-> FALSE, v |-> Release(0, 0, 0)]
SomeEnd(v) == [given |-> TRUE, v |-> v]

contains_mutant(s, e, version) ==
    IF VLt(version, s) THEN FALSE
    ELSE IF e.given /\ VGt(version, e.v) THEN FALSE
    ELSE TRUE

\* VersionRange.contains
contains(s, e, version) ==
    IF VLe(version, s) THEN FALSE
    ELSE IF e.given /\ VGt(version, e.v) THEN FALSE
    ELSE TRUE

\* VersionRange.filter_versions
filter_versions(s, e, versions) ==
    Sorted(SelectSeq(versions, LAMBDA v : contains(s, e, v)))

(***************************************************************************)
(* Product registry and fetcher selection (config.py, compiler.py)         *)
(***************************************************************************)
\* PRODUCTS: one product with legacy docs and one modern-only product
Products == {"elasticsearch", "es-client-java"}

PRODUCTS(p) ==
    IF p = "elasticsearch"
    THEN [has_legacy_docs |-> TRUE, legacy_base_url |-> TRUE]
    ELSE [has_legacy_docs |-> FALSE, legacy_base_url |-> FALSE]

MODERN_DOCS_MIN_VERSION == Release(9, 0, 0)

\* _get_fetchers: the legacy client exists only with legacy docs and a legacy URL
get_fetchers(p) ==
    [legacy |-> IF PRODUCTS(p).has_legacy_docs /\ PRODUCTS(p).legacy_base_url
                THEN "legacy" ELSE "none",
     modern |-> "modern"]

get_fetcher_for_version_mutant(p, version) ==
    IF VGe(version, MODERN_DOCS_MIN_VERSION)
    THEN get_fetchers(p).modern
    ELSE get_fetchers(p).legacy

\* _get_fetcher_for_version
get_fetcher_for_version(p, version) ==
    IF ~PRODUCTS(p).has_legacy_docs \/ get_fetchers(p).legacy = "none"
    THEN get_fetchers(p).modern
    ELSE IF VGe(version, MODERN_DOCS_MIN_VERSION)
         THEN get_fetchers(p).modern
         ELSE get_fetchers(p).legacy

(***************************************************************************)
(* Input domains of the pure-function specification                        *)
(***************************************************************************)
RECURSIVE DigitStrings(_)
\* digit strings over {0, 1} of length 1..n
DigitStrings(n) ==
    IF n = 0 THEN {}
    ELSE LET shorter == DigitStrings(n - 1)
         IN  {<<0>>, <<1>>} \cup shorter \cup {Append(d, x) : d \in shorter, x \in {0, 1}}

\* the prerelease values Version.parse produces: a lower-case tag and digits
ParsedPreleases ==
    {NoPre} \cup {Pre(t, d) : t \in {"alpha", "beta", "rc"},
                                               d \in {x \in DigitStrings(MaxDigits) : Len(x) <= MaxDigits}}

ParsedVersions ==
    {Version(ma, mi, pa, pre) : ma \in {8, 9}, mi \in 0..MaxMinor, pa \in {0, 1},
                                pre \in ParsedPreleases}

V8_5_0 == Release(8, 5, 0)
V8_19_0 == Release(8, 19, 0)
V9_0_0 == Release(9, 0, 0)
V9_1_0 == Release(9, 1, 0)
V9_2_0_beta1 == Version(9, 2, 0, Pre("beta", <<1>>))
V9_2_0_beta01 == Version(9, 2, 0, Pre("beta", <<0, 1>>))
V8_19_0_rc1 == Version(8, 19, 0, Pre("rc", <<1>>))
V8_19_0_rc01 == Version(8, 19, 0, Pre("rc", <<0, 1>>))

FilterVersions == {V8_19_0, V9_0_0, V9_1_0, V9_2_0_beta1, V9_2_0_beta01}

RECURSIVE SeqsUpTo(_, _)
\* the lists over S of length at most n
SeqsUpTo(S, n) ==
    IF n = 0 THEN {<<>>}
    ELSE LET shorter == SeqsUpTo(S, n - 1)
         IN  shorter \cup {Append(q, x) : q \in {y \in shorter : Len(y) = n - 1}, x \in S}

SelectVersions == ParsedVersions \cup {V8_5_0, V8_19_0, V9_2_0_beta1}

\* The texts given to Version.parse: every choice of the parts below, written
\* one after the other. The choices include the empty part, a wrong
\* separator, a word that is no tag, and text before and after.
ParseTexts ==
    {lead \o ma \o d1 \o mi \o d2 \o pa \o sep \o tag \o num \o trail :
        lead \in {<<>>, <<"\t", " ">>},    \* a tab and a no-break space
        ma \in {<<"9">>, <<"0", "8">>, <<>>},
        d1 \in {<<".">>, <<"-">>},
        mi \in {<<"0">>, <<"1", "7">>},
        d2 \in {<<".">>, <<>>},
        pa \in {<<"0">>, <<"1">>},
        sep \in {<<>>, <<"-">>, <<".">>, <<"_">>},
        tag \in {<<>>, <<"a", "l", "p", "h", "a">>, <<"B", "E", "T", "A">>, <<"r", "c">>,
                 <<"R", "c">>, <<"p", "r", "e">>},
        num \in {<<>>, <<"1">>, <<"0", "1">>},
        trail \in {<<>>, <<"\n">>, <<"x">>}}

NoParse == [ok |-> FALSE, version |-> Release(0, 0, 0), text |-> <<>>, again |-> ParseError]
DefaultParseIn == <<>>

NoCmp == [lt |-> FALSE, gt |-> FALSE, eq |-> FALSE, le |-> FALSE, ge |-> FALSE,
          hash_eq |-> FALSE]
DefaultCmpIn == <<V9_0_0, V9_0_0>>
DefaultFiltIn == [start |-> V9_0_0, end |-> NoEnd, vs |-> <<>>]
DefaultSelIn == [product |-> "elasticsearch", version |-> V9_0_0]

(***************************************************************************)
(* SpecVersion: the pure functions applied to drawn inputs                 *)
(***************************************************************************)
VersionIdle ==
    /\ cmp_in = DefaultCmpIn /\ cmp_out = NoCmp
    /\ filt_in = DefaultFiltIn /\ filt_out = <<>>
    /\ sel_in = DefaultSelIn /\ sel_out = "none"
    /\ parse_in = DefaultParseIn /\ parse_out = NoParse

InitVersion ==
    /\ applied = FALSE
    /\ cmp_out = NoCmp /\ filt_out = <<>> /\ sel_out = "none" /\ parse_out = NoParse
    /\ \/ /\ kind = "compare"
          /\ cmp_in \in ParsedVersions \X ParsedVersions
          /\ filt_in = DefaultFiltIn /\ sel_in = DefaultSelIn
          /\ parse_in = DefaultParseIn
       \/ /\ kind = "filter"
          /\ filt_in \in [start : FilterVersions,
                          end : {NoEnd} \cup {SomeEnd(v) : v \in FilterVersions},
                          vs : SeqsUpTo(FilterVersions, MaxLen)]
          /\ cmp_in = DefaultCmpIn /\ sel_in = DefaultSelIn
          /\ parse_in = DefaultParseIn
       \/ /\ kind = "select"
          /\ sel_in \in [product : Products, version : SelectVersions]
          /\ cmp_in = DefaultCmpIn /\ filt_in = DefaultFiltIn
          /\ parse_in = DefaultParseIn
       \/ /\ kind = "parse"
          /\ parse_in \in ParseTexts
          /\ cmp_in = DefaultCmpIn /\ filt_in = DefaultFiltIn /\ sel_in = DefaultSelIn

\* a < b, a > b, a == b, a <= b, a >= b and hash(a) == hash(b)
Compare ==
    /\ kind = "compare" /\ ~applied
    /\ applied' = TRUE
    /\ cmp_out' = [lt |-> VLt(cmp_in[1], cmp_in[2]),
                   gt |-> VGt(cmp_in[1], cmp_in[2]),
                   eq |-> VEq(cmp_in[1], cmp_in[2]),
                   le |-> VLe(cmp_in[1], cmp_in[2]),
                   ge |-> VGe(cmp_in[1], cmp_in[2]),
                   hash_eq |-> VHash(cmp_in[1]) = VHash(cmp_in[2])]
    /\ UNCHANGED <<kind, cmp_in, filt_in, filt_out, sel_in, sel_out, parse_in, parse_out>>

\* VersionRange(start, end).filter_versions(vs)
Filter ==
    /\ kind = "filter" /\ ~applied
    /\ applied' = TRUE
    /\ filt_out' = filter_versions(filt_in.start, filt_in.end, filt_in.vs)
    /\ UNCHANGED <<kind, cmp_in, cmp_out, filt_in, sel_in, sel_out, parse_in, parse_out>>

\* _get_fetcher_for_version(product, version)
SelectFetcher ==
    /\ kind = "select" /\ ~applied
    /\ applied' = TRUE
    /\ sel_out' = get_fetcher_for_version(sel_in.product, sel_in.version)
    /\ UNCHANGED <<kind, cmp_in, cmp_out, filt_in, filt_out, sel_in, parse_in, parse_out>>

\* Version.parse(text); when it returns, str() of the result and its parse
Parse ==
    /\ kind = "parse" /\ ~applied
    /\ applied' = TRUE
    /\ LET first == parse(parse_in)
           text == to_string(first.version)
       IN  parse_out' = IF first.ok
                        THEN [ok |-> TRUE, version |-> first.version, text |-> text,
                              again |-> parse(text)]
                        ELSE NoParse
    /\ UNCHANGED <<kind, cmp_in, cmp_out, filt_in, filt_out, sel_in, sel_out, parse_in>>

(***************************************************************************)
(* fetch_page (fetchers/base.py, fetchers/async_base.py)                   *)
(***************************************************************************)
\* stop_after_attempt(3)
MaxAttempts == 3

\* What one client.get followed by raise_for_status can do: a success status
\* with a body (possibly empty), an error status, or a transport exception.
\* ConnectTimeout stands for the exceptions that are not of a retried type.
Bodies == {"<html>", ""}
ErrorStatuses == {"404", "500", "503"}
TransportErrors == {"ConnectError", "ReadTimeout", "ConnectTimeout"}

Ok(body) == [kind |-> "ok", detail |-> body]
Status(code) == [kind |-> "status", detail |-> code]
Transport(name) == [kind |-> "transport", detail |-> name]

AttemptOutcomes ==
    {Ok(b) : b \in Bodies} \cup {Status(c) : c \in ErrorStatuses}
        \cup {Transport(e) : e \in TransportErrors}

\* the value of a call: a returned text, a returned None or a raised exception
Returned(text) == [how |-> "returned", value |-> text]
ReturnedNone == [how |-> "returned_none", value |-> ""]
Raised(exc) == [how |-> "raised", value |-> exc]
Pending == [how |-> "pending", value |-> ""]

\* The body of fetch_page: what one attempt returns or raises.
AttemptResult(o) ==
    CASE o.kind = "ok" -> Returned(o.detail)
      [] o.kind = "status" /\ o.detail = "404" -> ReturnedNone
      [] o.kind = "status" /\ o.detail # "404" -> Raised("HTTPStatusError")
      [] OTHER -> Raised(o.detail)

should_retry_mutant(exc) == TRUE

\* retry_if_exception_type((httpx.ConnectError, httpx.ReadTimeout))
should_retry(exc) == exc \in {"ConnectError", "ReadTimeout"}

stop_after_attempt_mutant(n) == n >= MaxAttempts + 1

\* stop_after_attempt(3)
stop_after_attempt(n) == n >= MaxAttempts

FetchIdle ==
    /\ flavour = "sync" /\ fstate = "idle" /\ attempt_number = 0
    /\ history = <<>> /\ fresult = Pending

InitFetch ==
    /\ flavour \in {"sync", "async"}
    /\ fstate = "attempt" /\ attempt_number = 1
    /\ history = <<>> /\ fresult = Pending

\* One attempt of fetch_page and tenacity's decision on its result.
Attempt ==
    /\ fstate = "attempt"
    /\ \E o \in AttemptOutcomes :
        LET r == AttemptResult(o) IN
        /\ history' = Append(history, o)
        /\ IF r.how # "raised"
           THEN fstate' = "returned" /\ fresult' = r
           ELSE IF ~should_retry(r.value)
           THEN fstate' = "raised" /\ fresult' = r
           ELSE IF stop_after_attempt(attempt_number)
           THEN fstate' = "raised" /\ fresult' = Raised("RetryError")
           ELSE fstate' = "wait" /\ fresult' = Pending
    /\ UNCHANGED <<flavour, attempt_number>>

\* The backoff sleep between two attempts.
Backoff ==
    /\ fstate = "wait"
    /\ fstate' = "attempt"
    /\ attempt_number' = attempt_number + 1
    /\ UNCHANGED <<flavour, history, fresult>>

(***************************************************************************)
(* The page cache of the modern fetch client (fetchers/modern.py,          *)
(* fetchers/async_modern.py): _get_cached_page called by the units that    *)
(* run at the same time. In the thread fetcher a thread can be switched    *)
(* out between the test, the store and the final read of the dictionary;   *)
(* in the coroutine fetcher only at the await of fetch_page.               *)
(***************************************************************************)
\* two of the keys of MODERN_PATTERNS
PageKeys == {"release_notes", "breaking_changes"}

\* the text of the page of a key, the same whenever the page is served
PageOf(k) == IF k = "release_notes" THEN "<release notes>" ELSE "<breaking changes>"

\* what one attempt to get the page of key k can meet
PageOutcomes(k) ==
    {Ok(PageOf(k)), Status("404"), Status("500"), Transport("ReadTimeout")}

\* the units that can be in flight together
Requesters == 1..MaxWorkers

\* a key of self._cached_pages: absent, or present with a text or None
NotCached == [stored |-> FALSE, page |-> Pending]
EmptyCache == [k \in PageKeys |-> NotCached]

has_page_mutant(cache, k) == FALSE

\* page_key in self._cached_pages
has_page(cache, k) == cache[k].stored

store_page_mutant(cache, k, r) ==
    IF r.how = "returned" THEN [cache EXCEPT ![k] = [stored |-> TRUE, page |-> r]]
    ELSE cache

\* self._cached_pages[page_key] = <what fetch_page returned>
store_page(cache, k, r) == [cache EXCEPT ![k] = [stored |-> TRUE, page |-> r]]

\* a _get_cached_page call: where it is, its key, the attempt of its
\* fetch_page, whether it found the key in the dictionary, and its value
Call(at, key, attempt, hit, value) ==
    [at |-> at, key |-> key, attempt_number |-> attempt, hit |-> hit, result |-> value]
NoCall == Call("idle", "release_notes", 0, FALSE, Pending)

CacheIdle ==
    /\ cached_pages = EmptyCache
    /\ call = [u \in Requesters |-> NoCall]
    /\ requests = 0
    /\ fetch_results = [k \in PageKeys |-> {}]
    /\ cleared = FALSE

\* A fetch client just created, of either kind, and no call made yet.
InitCache ==
    /\ flavour \in {"sync", "async"}
    /\ fstate = "idle" /\ attempt_number = 0
    /\ history = <<>> /\ fresult = Pending
    /\ CacheIdle

\* _get_cached_page is entered: the test of the dictionary. On a key that is
\* present the coroutine returns the value at once, the thread goes on to
\* the read; on an absent key fetch_page is called.
GetCachedPage(u, k) ==
    /\ call[u].at \in {"idle", "returned", "raised"}
    /\ requests < MaxRequests
    /\ requests' = requests + 1
    /\ call' = [call EXCEPT ![u] =
                   IF has_page(cached_pages, k)
                   THEN IF flavour = "async"
                        THEN Call("returned", k, 0, TRUE, cached_pages[k].page)
                        ELSE Call("read", k, 0, TRUE, Pending)
                   ELSE Call("fetching", k, 1, FALSE, Pending)]
    /\ UNCHANGED <<cached_pages, fetch_results, cleared, fvars>>

\* One attempt of the call's fetch_page and what follows it: the store of a
\* returned value, the exception that leaves _get_cached_page, or the next
\* attempt after the backoff.
FetchAttempt(u) ==
    /\ call[u].at = "fetching"
    /\ LET k == call[u].key IN
       \E o \in PageOutcomes(k) :
        LET r == AttemptResult(o)
            stored == store_page(cached_pages, k, r)
            exc == IF should_retry(r.value) THEN Raised("RetryError") ELSE r
        IN  IF r.how # "raised"
            THEN /\ cached_pages' = stored
                 /\ fetch_results' = [fetch_results EXCEPT ![k] = @ \cup {r}]
                 /\ call' = [call EXCEPT ![u] =
                                IF flavour = "async"
                                THEN Call("returned", k, @.attempt_number, FALSE,
                                          stored[k].page)
                                ELSE Call("read", k, @.attempt_number, FALSE, Pending)]
            ELSE IF ~should_retry(r.value) \/ stop_after_attempt(call[u].attempt_number)
            THEN /\ fetch_results' = [fetch_results EXCEPT ![k] = @ \cup {exc}]
                 /\ call' = [call EXCEPT ![u] =
                                Call("raised", k, @.attempt_number, FALSE, exc)]
                 /\ UNCHANGED cached_pages
            ELSE /\ call' = [call EXCEPT ![u].attempt_number = @ + 1]
                 /\ UNCHANGED <<cached_pages, fetch_results>>
    /\ UNCHANGED <<requests, cleared, fvars>>

\* return self._cached_pages[page_key] in a thread: the subscript raises
\* KeyError when clear_cache has emptied the dictionary since the test or
\* the store
ReturnPage(u) ==
    /\ call[u].at = "read"
    /\ call' = [call EXCEPT ![u] =
                   IF has_page(cached_pages, @.key)
                   THEN Call("returned", @.key, @.attempt_number, @.hit,
                             cached_pages[@.key].page)
                   ELSE Call("raised", @.key, @.attempt_number, @.hit,
                             Raised("KeyError"))]
    /\ UNCHANGED <<cached_pages, requests, fetch_results, cleared, fvars>>

\* clear_cache(): self._cached_pages.clear(). Nothing in the package calls
\* it; it is part of the client's interface and can be called by the holder
\* of the client at any moment.
ClearCache ==
    /\ requests < MaxRequests
    /\ requests' = requests + 1
    /\ cached_pages' = EmptyCache
    /\ cleared' = TRUE
    /\ UNCHANGED <<call, fetch_results, fvars>>

(***************************************************************************)
(* Data model (models.py)                                                  *)
(***************************************************************************)
\* SectionType
SectionTypes == {"breaking_changes", "known_issues", "deprecations", "highlights",
                 "new_features", "enhancements", "bug_fixes", "upgrades"}

\* ReleaseItem: pr_number 0 stands for None
ReleaseItem(description, pr_number) ==
    [description |-> description, pr_number |-> pr_number]

\* A key of ReleaseNote.sections: absent, or a ReleaseSection with its items
NoSection == [present |-> FALSE, items |-> <<>>]
ReleaseSection(items) == [present |-> TRUE, items |-> items]

\* ReleaseSection.is_empty
is_empty(section) == Len(section.items) = 0

NoSections == [t \in SectionTypes |-> NoSection]

\* ReleaseNote
ReleaseNote(version, sections) == [version |-> version, sections |-> sections]

(***************************************************************************)
(* Consolidation (models.py)                                               *)
(***************************************************************************)
\* the cut [:100] of get_dedup_key
MaxKeyLength == 100

cut(s, n) == SubSeq(s, 1, IF Len(s) < n THEN Len(s) ELSE n)

get_dedup_key_mutant(item) ==
    IF item.pr_number # 0
    THEN <<"p", "r", ":">> \o int_to_chars(item.pr_number)
    ELSE <<"d", "e", "s", "c", ":">> \o cut(strip(item.description), MaxKeyLength)

\* ReleaseItem.get_dedup_key
get_dedup_key(item) ==
    IF item.pr_number # 0
    THEN <<"p", "r", ":">> \o int_to_chars(item.pr_number)
    ELSE <<"d", "e", "s", "c", ":">> \o cut(strip(lower(item.description)), MaxKeyLength)

ConsolidatedItem(description, versions, pr_number) ==
    [description |-> description, versions |-> versions, pr_number |-> pr_number]

\* ConsolidatedItem.from_release_item
from_release_item(item, version) ==
    ConsolidatedItem(item.description, <<version>>, item.pr_number)

add_version_mutant(c, version) ==
    IF \E i \in 1..Len(c.versions) : VEq(version, c.versions[i]) THEN c
    ELSE [c EXCEPT !.versions = Append(@, version)]

\* ConsolidatedItem.add_version
add_version(c, version) ==
    IF \E i \in 1..Len(c.versions) : VEq(version, c.versions[i]) THEN c
    ELSE [c EXCEPT !.versions = Sorted(Append(@, version))]

\* items_by_key is a dict: its entries in insertion order
key_index(items_by_key, key) ==
    IF \E i \in 1..Len(items_by_key) : items_by_key[i].key = key
    THEN CHOOSE i \in 1..Len(items_by_key) : items_by_key[i].key = key
    ELSE 0

RECURSIVE consolidate_items(_, _, _)
\* for item in section.items
consolidate_items(items_by_key, items, version) ==
    IF items = <<>> THEN items_by_key
    ELSE LET item == Head(items)
             key == get_dedup_key(item)
             i == key_index(items_by_key, key)
         IN  consolidate_items(
                 IF i # 0
                 THEN [items_by_key EXCEPT ![i].value = add_version(@, version)]
                 ELSE Append(items_by_key,
                             [key |-> key, value |-> from_release_item(item, version)]),
                 Tail(items), version)

RECURSIVE consolidate_releases(_, _, _)
\* for release in self.releases
consolidate_releases(items_by_key, rs, section_type) ==
    IF rs = <<>> THEN items_by_key
    ELSE LET release == Head(rs)
             section == release.sections[section_type]
         IN  consolidate_releases(
                 IF ~section.present THEN items_by_key
                 ELSE consolidate_items(items_by_key, section.items, release.version),
                 Tail(rs), section_type)

RECURSIVE InsertByFirstVersion(_, _)
InsertByFirstVersion(c, s) ==
    IF s = <<>> THEN <<c>>
    ELSE IF VLt(c.versions[1], Head(s).versions[1]) THEN <<c>> \o s
    ELSE <<Head(s)>> \o InsertByFirstVersion(c, Tail(s))

RECURSIVE SortByFirstVersion(_)
\* result.sort(key=lambda x: x.versions[0])
SortByFirstVersion(s) ==
    IF s = <<>> THEN <<>>
    ELSE InsertByFirstVersion(s[Len(s)], SortByFirstVersion(SubSeq(s, 1, Len(s) - 1)))

\* CompiledReleaseNotes.get_consolidated_section
get_consolidated_section(rs, section_type) ==
    LET items_by_key == consolidate_releases(<<>>, rs, section_type)
    IN  SortByFirstVersion([i \in 1..Len(items_by_key) |-> items_by_key[i].value])

(***************************************************************************)
(* SpecModels: consolidation applied to drawn releases, and add_version    *)
(* called on one ConsolidatedItem                                          *)
(***************************************************************************)
MaxItems == 2        \* length of a section's item list
MaxCalls == 3        \* add_version calls on one ConsolidatedItem

FixA == <<"F", "i", "x", " ", "A">>
FixAPadded == <<" ", "f", "i", "x", " ", "a", " ">>
FixB == <<"F", "i", "x", " ", "B">>
\* two descriptions that differ only after the cut
LongA == [i \in 1..MaxKeyLength |-> "x"] \o <<"a">>
LongB == [i \in 1..MaxKeyLength |-> "x"] \o <<"b">>

ConsItems == {ReleaseItem(FixA, 555), ReleaseItem(FixB, 555), ReleaseItem(FixA, 0),
              ReleaseItem(FixAPadded, 0), ReleaseItem(LongA, 0), ReleaseItem(LongB, 0)}

V8_17_0 == Release(8, 17, 0)
V8_17_1 == Release(8, 17, 1)

ConsSections == {NoSection} \cup {ReleaseSection(q) : q \in SeqsUpTo(ConsItems, MaxItems)}

\* a release with the drawn bug_fixes section and one enhancement
ConsRelease(version, section) ==
    ReleaseNote(version, [NoSections EXCEPT !["bug_fixes"] = section,
                                            !["enhancements"] =
                                                ReleaseSection(<<ReleaseItem(FixB, 0)>>)])

\* the sections of a second release: absent, empty or one item
ShortSections == {NoSection, ReleaseSection(<<>>)}
                     \cup {ReleaseSection(<<x>>) : x \in ConsItems}

\* no release, one, or two in either order of their versions
ConsReleases ==
    {<<>>}
    \cup {<<ConsRelease(v, s1)>> : v \in {V8_17_0, V8_17_1}, s1 \in ConsSections}
    \cup {<<ConsRelease(V8_17_0, s1), ConsRelease(V8_17_1, s2)>> :
              s1 \in ConsSections, s2 \in ShortSections}
    \cup {<<ConsRelease(V8_17_1, s1), ConsRelease(V8_17_0, s2)>> :
              s1 \in ConsSections, s2 \in ShortSections}

ItemVersions == {V8_17_0, V8_17_1, V9_0_0, V9_2_0_beta1, V9_2_0_beta01}

DefaultConsIn == [releases |-> <<>>, section_type |-> "bug_fixes"]
DefaultConsItem == ConsolidatedItem(<<>>, <<>>, 0)

InitModels ==
    /\ applied = FALSE
    /\ cons_out = <<>>
    /\ \/ /\ kind = "consolidate"
          /\ cons_in \in [releases : ConsReleases, section_type : {"bug_fixes", "enhancements"}]
          /\ cons_item = DefaultConsItem /\ version_calls = <<>>
       \/ /\ kind = "item"
          /\ cons_in = DefaultConsIn
          /\ \E v \in ItemVersions :
                /\ cons_item = from_release_item(ReleaseItem(FixA, 555), v)
                /\ version_calls = <<v>>

\* compiled.get_consolidated_section(section_type)
Consolidate ==
    /\ kind = "consolidate" /\ ~applied
    /\ applied' = TRUE
    /\ cons_out' = get_consolidated_section(cons_in.releases, cons_in.section_type)
    /\ UNCHANGED <<kind, cons_in, cons_item, version_calls>>

\* item.add_version(v)
AddVersion ==
    /\ kind = "item"
    /\ Len(version_calls) <= MaxCalls
    /\ \E v \in ItemVersions :
        /\ cons_item' = add_version(cons_item, v)
        /\ version_calls' = Append(version_calls, v)
    /\ applied' = TRUE
    /\ UNCHANGED <<kind, cons_in, cons_out>>

(***************************************************************************)
(* The legacy extractor (parsers/legacy.py)                                *)
(* A page is the list of the h2, h3, h4, ul and dl elements of its content *)
(* in document order. A heading has its text; a list has its li (or dd)    *)
(* children, each with its text and the number of the GitHub pull request  *)
(* its anchors link to, 0 without such an anchor. Categories, URLs and     *)
(* issue numbers are left out.                                             *)
(***************************************************************************)
\* SECTION_MAPPINGS, in the order of the dict
SECTION_MAPPINGS ==
    <<[pattern |-> <<"k", "n", "o", "w", "n", " ", "i", "s", "s", "u", "e", "s">>,
       section_type |-> "known_issues"],
      [pattern |-> <<"b", "r", "e", "a", "k", "i", "n", "g", " ", "c", "h", "a", "n", "g", "e", "s">>,
       section_type |-> "breaking_changes"],
      [pattern |-> <<"d", "e", "p", "r", "e", "c", "a", "t", "i", "o", "n", "s">>,
       section_type |-> "deprecations"],
      [pattern |-> <<"d", "e", "p", "r", "e", "c", "a", "t", "i", "o", "n">>,
       section_type |-> "deprecations"],
      [pattern |-> <<"h", "i", "g", "h", "l", "i", "g", "h", "t", "s">>,
       section_type |-> "highlights"],
      [pattern |-> <<"n", "e", "w", " ", "f", "e", "a", "t", "u", "r", "e", "s">>,
       section_type |-> "new_features"],
      [pattern |-> <<"e", "n", "h", "a", "n", "c", "e", "m", "e", "n", "t", "s">>,
       section_type |-> "enhancements"],
      [pattern |-> <<"e", "n", "h", "a", "n", "c", "e", "m", "e", "n", "t">>,
       section_type |-> "enhancements"],
      [pattern |-> <<"b", "u", "g", " ", "f", "i", "x", "e", "s">>,
       section_type |-> "bug_fixes"],
      [pattern |-> <<"f", "i", "x", "e", "s">>,
       section_type |-> "bug_fixes"],
      [pattern |-> <<"u", "p", "g", "r", "a", "d", "e", "s">>,
       section_type |-> "upgrades"]>>

\* pattern in header_text
is_substring(sub, text) ==
    \E i \in 0..(Len(text) - Len(sub)) : SubSeq(text, i + 1, i + Len(sub)) = sub

\* the first mapping whose pattern is in the header text, "" if none
matched_section(header_text) ==
    LET hits == {i \in 1..Len(SECTION_MAPPINGS) :
                    is_substring(SECTION_MAPPINGS[i].pattern, header_text)}
    IN  IF hits = {} THEN ""
        ELSE SECTION_MAPPINGS[CHOOSE i \in hits : \A j \in hits : i <= j].section_type

RECURSIVE pr_search(_, _)
\* PR_SIMPLE_PATTERN.search from index i: where the first #(\d+) starts, 0 if none
pr_search(text, i) ==
    IF i > Len(text) THEN 0
    ELSE IF text[i] = "#" /\ digits_end(text, i + 1) > i + 1 THEN i
    ELSE pr_search(text, i + 1)

RECURSIVE pr_sub(_)
\* PR_SIMPLE_PATTERN.sub('', text)
pr_sub(text) ==
    LET i == pr_search(text, 1)
    IN  IF i = 0 THEN text
        ELSE SubSeq(text, 1, i - 1)
                 \o pr_sub(SubSeq(text, digits_end(text, i + 1), Len(text)))

RECURSIVE collapse(_)
\* re.sub(r'\s+', ' ', s)
collapse(s) ==
    IF s = <<>> THEN <<>>
    ELSE IF Head(s) \in Whitespace THEN <<" ">> \o collapse(lstrip(s))
    ELSE <<Head(s)>> \o collapse(Tail(s))

ListItem(text, pull) == [text |-> text, pull |-> pull]

\* _parse_list_item
parse_list_item(li) ==
    LET text == strip(li.text)
        i == pr_search(text, 1)
        pr_number == IF li.pull # 0 THEN li.pull
                     ELSE IF i # 0 THEN int(SubSeq(text, i + 1, digits_end(text, i + 1) - 1))
                     ELSE 0
    IN  ReleaseItem(strip(collapse(pr_sub(text))), pr_number)

Heading(name, text) == [name |-> name, text |-> text, items |-> <<>>]
List(name, items) == [name |-> name, text |-> <<>>, items |-> items]

\* the items a ul or dl adds: a dd without description is dropped
list_items(element) ==
    LET parsed == [i \in 1..Len(element.items) |-> parse_list_item(element.items[i])]
    IN  IF element.name = "dl"
        THEN SelectSeq(parsed, LAMBDA item : item.description # <<>>)
        ELSE parsed

RECURSIVE parse_elements(_, _, _)
\* for element in content.find_all(['h2', 'h3', 'h4', 'ul', 'dl'])
parse_elements(sections, current_section_type, elements) ==
    IF elements = <<>> THEN sections
    ELSE LET element == Head(elements)
             matched == matched_section(strip(lower(element.text)))
         IN  IF element.name \in {"h2", "h3"} /\ matched # ""
             THEN parse_elements(
                      IF sections[matched].present THEN sections
                      ELSE [sections EXCEPT ![matched] = ReleaseSection(<<>>)],
                      matched, Tail(elements))
             ELSE IF element.name \in {"ul", "dl"} /\ current_section_type # ""
             THEN parse_elements(
                      [sections EXCEPT ![current_section_type] =
                          ReleaseSection(@.items \o list_items(element))],
                      current_section_type, Tail(elements))
             ELSE parse_elements(sections, current_section_type, Tail(elements))

\* LegacyParser.parse_release_notes: the sections of the ReleaseNote
parse_release_notes(page) == parse_elements(NoSections, "", page)

(***************************************************************************)
(* SpecLegacy: the extractor applied to drawn pages                        *)
(***************************************************************************)
FixedCrash == <<"F", "i", "x", "e", "d", " ", "c", "r", "a", "s", "h">>
HeadingTexts == {<<"B", "u", "g", " ", "f", "i", "x", "e", "s">>, <<"F", "i", "x", "e", "s">>,
                 <<" ", "E", "n", "h", "a", "n", "c", "e", "m", "e", "n", "t", "s", " ">>, <<"O", "t", "h", "e", "r", " ", "n", "o", "t", "e", "s">>,
                 <<"B", "u", "g", " ", "f", "i", "x", "e", "s", " ", "a", "n", "d", " ", "e", "n", "h", "a", "n", "c", "e", "m", "e", "n", "t", "s">>}
ItemTexts == {<<"F", "i", "x", "e", "d", " ", "c", "r", "a", "s", "h", " ", "(", "#", "1", "2", "3", "4", ")">>,
              <<"F", "i", "x", "e", "d", " ", "c", "r", "a", "s", "h", " ", "#", "1", "2", "3", "4">>,
              \* a space and a no-break space between the words
              <<"F", "i", "x", "e", "d", " ", " ", "c", "r", "a", "s", "h">>,
              <<"#", "1", "2", " ", "F", "i", "x", "e", "d", " ", "c", "r", "a", "s", "h", " ", "#", "3", "4", " ">>,
              <<"F", "i", "x", "e", "d", " ", "c", "r", "a", "s", "h", " ", "(", "#", ")">>,
              <<"F", "i", "x", "e", "d", " ", "c", "r", "a", "s", "h", " ", "1", "2", "3", "4">>}
ListItems == {ListItem(text, pull) : text \in ItemTexts, pull \in {0, 77}}
              \cup {ListItem(<<"#", "5">>, 0)}
ItemLists == SeqsUpTo(ListItems, MaxItems) \ {<<>>}
Headings == {Heading(name, text) : name \in {"h2", "h3"}, text \in HeadingTexts}

LegacyPages ==
    {<<List("ul", <<li>>)>> : li \in ListItems}
    \cup {<<h, List(name, items)>> : h \in Headings, name \in {"ul", "dl"}, items \in ItemLists}
    \cup {<<h1, List("ul", <<li>>), Heading("h4", FixedCrash), h2, List("ul", <<li>>)>> :
              h1 \in Headings, h2 \in Headings, li \in ListItems}

InitLegacy ==
    /\ kind = "legacy" /\ applied = FALSE
    /\ page_in \in LegacyPages
    /\ page_out = NoSections

\* parser.parse_release_notes(html, version, product)
ParsePage ==
    /\ kind = "legacy" /\ ~applied
    /\ applied' = TRUE
    /\ page_out' = parse_release_notes(page_in)
    /\ UNCHANGED <<kind, page_in>>

(***************************************************************************)
(* The modern extractor (parsers/modern.py)                                *)
(* A page is the list of the elements that are siblings of the version     *)
(* wrappers, in document order. A div has its id, whether its class list   *)
(* holds heading-wrapper, and the name and text of the heading inside it;  *)
(* h2, h3, h4, p and details have their text (for details the text of the  *)
(* summary, with the content div that follows it: the texts of its p       *)
(* elements and the numbers of its pull-request links, in document order); *)
(* a ul has its li children as in the legacy extractor.                    *)
(* Categories, impact, action and URLs are left out.                       *)
(***************************************************************************)
\* ModernParser.SECTION_MAPPINGS, in the order of the dict
MODERN_SECTION_MAPPINGS ==
    <<[pattern |-> <<"k", "n", "o", "w", "n", " ", "i", "s", "s", "u", "e", "s">>, section_type |-> "known_issues"],
      [pattern |-> <<"b", "r", "e", "a", "k", "i", "n", "g", " ", "c", "h", "a", "n", "g", "e", "s">>, section_type |-> "breaking_changes"],
      [pattern |-> <<"d", "e", "p", "r", "e", "c", "a", "t", "i", "o", "n", "s">>, section_type |-> "deprecations"],
      [pattern |-> <<"d", "e", "p", "r", "e", "c", "a", "t", "i", "o", "n">>, section_type |-> "deprecations"],
      [pattern |-> <<"h", "i", "g", "h", "l", "i", "g", "h", "t", "s">>, section_type |-> "highlights"],
      [pattern |-> <<"n", "e", "w", " ", "f", "e", "a", "t", "u", "r", "e", "s">>, section_type |-> "new_features"],
      [pattern |-> <<"f", "e", "a", "t", "u", "r", "e", "s">>, section_type |-> "new_features"],
      [pattern |-> <<"e", "n", "h", "a", "n", "c", "e", "m", "e", "n", "t", "s">>, section_type |-> "enhancements"],
      [pattern |-> <<"e", "n", "h", "a", "n", "c", "e", "m", "e", "n", "t">>, section_type |-> "enhancements"],
      [pattern |-> <<"b", "u", "g", " ", "f", "i", "x", "e", "s">>, section_type |-> "bug_fixes"],
      [pattern |-> <<"f", "i", "x", "e", "s">>, section_type |-> "bug_fixes"],
      [pattern |-> <<"u", "p", "g", "r", "a", "d", "e", "s">>, section_type |-> "upgrades"]>>

\* for pattern, section_type in self.SECTION_MAPPINGS.items(): the first
\* pattern in header_text, "" if none
modern_matched_section(header_text) ==
    LET hits == {i \in 1..Len(MODERN_SECTION_MAPPINGS) :
                    is_substring(MODERN_SECTION_MAPPINGS[i].pattern, header_text)}
    IN  IF hits = {} THEN ""
        ELSE MODERN_SECTION_MAPPINGS[CHOOSE i \in hits : \A j \in hits : i <= j].section_type

\* str.startswith, str.endswith
startswith(text, prefix) ==
    Len(prefix) <= Len(text) /\ SubSeq(text, 1, Len(prefix)) = prefix
endswith(text, suffix) ==
    Len(suffix) <= Len(text) /\ SubSeq(text, Len(text) - Len(suffix) + 1, Len(text)) = suffix

\* re.search(r'\d+\.\d+\.\d+', text): the first two runs of digits must
\* reach the dot, the third needs one digit
version_search(text) ==
    \E i \in 1..Len(text) :
        LET e1 == digits_end(text, i)
            e2 == digits_end(text, e1 + 1)
        IN  /\ e1 > i /\ e1 <= Len(text) /\ text[e1] = "."
            /\ e2 > e1 + 1 /\ e2 <= Len(text) /\ text[e2] = "."
            /\ e2 + 1 <= Len(text) /\ IsDigit(text[e2 + 1])

\* version_str.replace('.', '-')
version_dashes(version_str) ==
    [i \in 1..Len(version_str) |-> IF version_str[i] = "." THEN "-" ELSE version_str[i]]

RECURSIVE without(_, _)
\* text.replace(old, ''): every occurrence of old is removed, from the left
without(text, old) ==
    IF Len(text) < Len(old) THEN text
    ELSE IF SubSeq(text, 1, Len(old)) = old
    THEN without(SubSeq(text, Len(old) + 1, Len(text)), old)
    ELSE <<Head(text)>> \o without(Tail(text), old)

RELEASE_NOTES == <<"-", "r", "e", "l", "e", "a", "s", "e", "-", "n", "o", "t", "e", "s">>
BREAKING_CHANGES == <<"-", "b", "r", "e", "a", "k", "i", "n", "g", "-", "c", "h", "a", "n", "g", "e", "s">>

\* possible_ids of parse_release_notes_for_version (suffix -release-notes)
\* and of parse_breaking_changes_for_version (suffix -breaking-changes)
possible_ids(product_lower, version_str, suffix) ==
    <<product_lower \o <<"-">> \o version_str \o suffix>>
    \o (IF startswith(product_lower, <<"a", "p", "m", "-", "a", "g", "e", "n", "t", "-">>)
        THEN <<<<"e", "l", "a", "s", "t", "i", "c", "-", "a", "p", "m", "-">> \o without(product_lower, <<"a", "p", "m", "-", "a", "g", "e", "n", "t", "-">>)
                   \o <<"-", "a", "g", "e", "n", "t", "-">> \o version_dashes(version_str) \o suffix>>
        ELSE <<>>)
    \o (IF startswith(product_lower, <<"e", "d", "o", "t", "-">>)
        THEN <<<<"e", "d", "o", "t", "-">> \o without(product_lower, <<"e", "d", "o", "t", "-">>) \o <<"-">>
                   \o version_dashes(version_str) \o suffix>>
             \o (IF suffix = RELEASE_NOTES
                 THEN <<<<"e", "l", "a", "s", "t", "i", "c", "-", "o", "t", "e", "l", "-">> \o without(product_lower, <<"e", "d", "o", "t", "-">>) \o <<"-">>
                            \o version_dashes(version_str) \o suffix>>
                 ELSE <<>>)
        ELSE <<>>)

\* details.find(class_='dropdown-content') or details.find('div'): the div
\* found, with its paragraphs and its links to pull requests, or None
Content(paragraphs, pulls) == [found |-> TRUE, paragraphs |-> paragraphs, pulls |-> pulls]
NoContent == [found |-> FALSE, paragraphs |-> <<>>, pulls |-> <<>>]

Div(id, heading_wrapper, heading, text) ==
    [name |-> "div", id |-> id, heading_wrapper |-> heading_wrapper,
     heading |-> heading, text |-> text, items |-> <<>>, content |-> NoContent]
Tag(name, text) ==
    [name |-> name, id |-> <<>>, heading_wrapper |-> FALSE,
     heading |-> "", text |-> text, items |-> <<>>, content |-> NoContent]
Ul(items) ==
    [name |-> "ul", id |-> <<>>, heading_wrapper |-> FALSE,
     heading |-> "", text |-> <<>>, items |-> items, content |-> NoContent]
Details(summary, content) ==
    [name |-> "details", id |-> <<>>, heading_wrapper |-> FALSE,
     heading |-> "", text |-> summary, items |-> <<>>, content |-> content]

\* soup.find('div', id=version_id): the index of the element, 0 if none
find_div(page, version_id) ==
    LET hits == {i \in 1..Len(page) : page[i].name = "div" /\ page[i].id = version_id}
    IN  IF hits = {} THEN 0 ELSE CHOOSE i \in hits : \A j \in hits : i <= j

\* for header in soup.find_all(['h2', 'h3']): if version_str in
\* header.get_text(): the header's parent div, or the header; 0 if none
find_header(page, version_str) ==
    LET hits == {i \in 1..Len(page) :
                    /\ \/ page[i].name \in {"h2", "h3"}
                       \/ page[i].name = "div" /\ page[i].heading \in {"h2", "h3"}
                    /\ is_substring(version_str, page[i].text)}
    IN  IF hits = {} THEN 0 ELSE CHOOSE i \in hits : \A j \in hits : i <= j

\* version_wrapper: the first of possible_ids that some div has, then the
\* fallback to the headers; 0 when no wrapper is found
find_version_wrapper(page, ids, version_str) ==
    LET found == {k \in 1..Len(ids) : find_div(page, ids[k]) # 0}
    IN  IF found # {}
        THEN find_div(page, ids[CHOOSE k \in found : \A j \in found : k <= j])
        ELSE find_header(page, version_str)

\* version_wrapper.find_next_siblings()
find_next_siblings(page, i) == SubSeq(page, i + 1, Len(page))

RECURSIVE first_line(_)
\* text.split('\n')[0]
first_line(text) ==
    IF text = <<>> \/ Head(text) = "\n" THEN <<>>
    ELSE <<Head(text)>> \o first_line(Tail(text))

\* _parse_modern_item
parse_modern_item(li) ==
    LET text == strip(li.text)
        i == pr_search(text, 1)
        pr_number == IF li.pull # 0 THEN li.pull
                     ELSE IF i # 0 THEN int(SubSeq(text, i + 1, digits_end(text, i + 1) - 1))
                     ELSE 0
    IN  ReleaseItem(strip(collapse(pr_sub(strip(first_line(text))))), pr_number)

RECURSIVE join(_)
\* " ".join(parts)
join(parts) ==
    IF parts = <<>> THEN <<>>
    ELSE IF Len(parts) = 1 THEN Head(parts)
    ELSE Head(parts) \o <<" ">> \o join(Tail(parts))

RECURSIVE desc_parts(_)
\* the loop collecting desc_parts: the paragraphs before the first one that
\* starts with Impact, those starting with Action or For more information
\* skipped
desc_parts(paragraphs) ==
    IF paragraphs = <<>> THEN <<>>
    ELSE LET p_text == strip(Head(paragraphs))
         IN  IF \/ startswith(p_text, <<"I", "m", "p", "a", "c", "t", ":">>)
                \/ startswith(p_text, <<"*", "*", "I", "m", "p", "a", "c", "t">>)
             THEN <<>>
             ELSE IF /\ ~startswith(p_text, <<"A", "c", "t", "i", "o", "n", ":">>)
                     /\ ~startswith(p_text, <<"*", "*", "A", "c", "t", "i", "o", "n">>)
                     /\ ~startswith(p_text, <<"F", "o", "r", " ", "m", "o", "r", "e", " ", "i", "n", "f", "o", "r", "m", "a", "t", "i", "o", "n">>)
             THEN <<p_text>> \o desc_parts(Tail(paragraphs))
             ELSE desc_parts(Tail(paragraphs))

\* _parse_details_item: no item without a title; the description is the
\* title, followed by the collected paragraphs of the content when there
\* are any; pr_number is the number of the content's first pull-request link
parse_details_item(details) ==
    LET title == strip(details.text)
        content == details.content
        parts == IF content.found THEN desc_parts(content.paragraphs) ELSE <<>>
        description == IF parts # <<>> THEN title \o <<" ", "-", " ">> \o join(parts)
                       ELSE title
        pr_number == IF content.found /\ content.pulls # <<>> THEN Head(content.pulls)
                     ELSE 0
    IN  IF title = <<>> THEN <<>>
        ELSE <<ReleaseItem(description, pr_number)>>

\* for li in sibling.find_all('li', recursive=False)
modern_list_items(sibling) ==
    [i \in 1..Len(sibling.items) |-> parse_modern_item(sibling.items[i])]

RECURSIVE walk_release_notes(_, _, _, _)
\* for sibling in version_wrapper.find_next_siblings(), in
\* parse_release_notes_for_version; a break returns the sections built
walk_release_notes(sections, current_section_type, version_str, siblings) ==
    IF siblings = <<>> THEN sections
    ELSE LET sibling == Head(siblings)
             header_text == strip(lower(sibling.text))
             other_version == version_search(header_text)
                                  /\ ~is_substring(version_str, header_text)
             matched == modern_matched_section(header_text)
             opened == IF matched = "" \/ sections[matched].present THEN sections
                       ELSE [sections EXCEPT ![matched] = ReleaseSection(<<>>)]
             section_type == IF matched = "" THEN current_section_type ELSE matched
             appended(items) ==
                 [sections EXCEPT ![current_section_type] = ReleaseSection(@.items \o items)]
         IN  IF /\ sibling.name = "div"
                /\ endswith(sibling.id, RELEASE_NOTES)
                /\ ~is_substring(version_str, sibling.id)
             THEN sections
             ELSE IF sibling.name = "div" /\ sibling.heading_wrapper
             THEN IF sibling.heading # "h3"
                  THEN walk_release_notes(sections, current_section_type, version_str,
                                          Tail(siblings))
                  ELSE IF other_version THEN sections
                  ELSE walk_release_notes(opened, section_type, version_str, Tail(siblings))
             ELSE IF sibling.name = "h3"
             THEN IF other_version THEN sections
                  ELSE walk_release_notes(opened, section_type, version_str, Tail(siblings))
             ELSE IF sibling.name = "details" /\ current_section_type # ""
             THEN walk_release_notes(appended(parse_details_item(sibling)),
                                     current_section_type, version_str, Tail(siblings))
             ELSE IF sibling.name = "ul" /\ current_section_type # ""
             THEN walk_release_notes(appended(modern_list_items(sibling)),
                                     current_section_type, version_str, Tail(siblings))
             ELSE walk_release_notes(sections, current_section_type, version_str,
                                     Tail(siblings))

\* what the two extractors return: a ReleaseNote's sections, None, or the
\* items of the breaking-changes ReleaseSection
NoteFound(sections) == [how |-> "note", sections |-> sections, items |-> <<>>]
NoteNone == [how |-> "none", sections |-> NoSections, items |-> <<>>]
BreakingSection(items) == [how |-> "section", sections |-> NoSections, items |-> items]
NotExtracted == [how |-> "", sections |-> NoSections, items |-> <<>>]

\* ModernParser.parse_release_notes_for_version
parse_release_notes_for_version(page, version, product_name) ==
    LET version_str == to_string(version)
        version_wrapper ==
            find_version_wrapper(page, possible_ids(lower(product_name), version_str, RELEASE_NOTES),
                                 version_str)
    IN  IF version_wrapper = 0 THEN NoteNone
        ELSE NoteFound(walk_release_notes(NoSections, "", version_str,
                                          find_next_siblings(page, version_wrapper)))

NO_BREAKING_CHANGES == <<"n", "o", " ", "b", "r", "e", "a", "k", "i", "n", "g", " ", "c", "h", "a", "n", "g", "e", "s">>

RECURSIVE walk_breaking_changes(_, _)
\* for sibling in version_wrapper.find_next_siblings(), in
\* parse_breaking_changes_for_version; a break or the early return gives
\* the items appended so far
walk_breaking_changes(items, siblings) ==
    IF siblings = <<>> THEN items
    ELSE LET sibling == Head(siblings)
         IN  IF sibling.name = "div" /\ sibling.heading_wrapper THEN items
             ELSE IF sibling.name = "div" /\ endswith(sibling.id, BREAKING_CHANGES) THEN items
             ELSE IF sibling.name = "p"
             THEN IF is_substring(NO_BREAKING_CHANGES, lower(strip(sibling.text)))
                  THEN items
                  ELSE walk_breaking_changes(items, Tail(siblings))
             ELSE IF sibling.name = "details"
             THEN walk_breaking_changes(items \o parse_details_item(sibling), Tail(siblings))
             ELSE IF sibling.name = "ul"
             THEN walk_breaking_changes(items \o modern_list_items(sibling), Tail(siblings))
             ELSE walk_breaking_changes(items, Tail(siblings))

\* ModernParser.parse_breaking_changes_for_version
parse_breaking_changes_for_version(page, version, product_name) ==
    LET version_str == to_string(version)
        version_wrapper ==
            find_version_wrapper(page,
                                 possible_ids(lower(product_name), version_str, BREAKING_CHANGES),
                                 version_str)
    IN  IF version_wrapper = 0 THEN BreakingSection(<<>>)
        ELSE BreakingSection(walk_breaking_changes(<<>>,
                                                   find_next_siblings(page, version_wrapper)))

(***************************************************************************)
(* SpecModern: the two extractors applied to drawn pages. A page is drawn  *)
(* as a list of version blocks, each the version's anchor or heading       *)
(* followed by the content written under it.                               *)
(***************************************************************************)
MaxBlocks == 2       \* version blocks on a drawn page

ModernProducts == {<<"e", "l", "a", "s", "t", "i", "c", "s", "e", "a", "r", "c", "h">>, <<"a", "p", "m", "-", "a", "g", "e", "n", "t", "-", "j", "a", "v", "a">>}
ModernVersions == {Release(9, 0, 0), Release(9, 0, 1), Release(9, 0, 10), Release(9, 1, 0),
                   Version(9, 0, 0, Pre("rc", <<1>>))}

\* how a page marks the start of a version's block: a heading-wrapper div
\* with the anchor id, the same without id, or a bare h3 or h2
AnchorStyles == {"id", "div", "h3", "h2"}
\* how it writes a section heading
SectionStyles == {"div", "h3"}

VersionAnchor(product_name, v, style, suffix) ==
    CASE style = "id" ->
             LET ids == possible_ids(lower(product_name), to_string(v), suffix)
             IN  Div(ids[Len(ids)], TRUE, "h2", to_string(v))
      [] style = "div" -> Div(<<>>, TRUE, "h3", to_string(v))
      [] style = "h3" -> Tag("h3", product_name \o <<" ">> \o to_string(v))
      [] OTHER -> Tag("h2", to_string(v))

SectionHeading(style) ==
    IF style = "div" THEN Div(<<>>, TRUE, "h3", <<"F", "e", "a", "t", "u", "r", "e", "s", " ", "a", "n", "d", " ", "e", "n", "h", "a", "n", "c", "e", "m", "e", "n", "t", "s">>)
    ELSE Tag("h3", <<" ", "F", "i", "x", "e", "s", " ">>)

\* the one list item written under version v
ItemOf(v) == ListItem(<<"F", "i", "x", "e", "s", " ", "#", "7", " ", "i", "n", " ">> \o to_string(v) \o <<"\n">> \o <<"m", "o", "r", "e">>, 0)
\* the one dropdown written under version v
DetailsOf(v) ==
    Details(<<"R", "e", "m", "o", "v", "e", "d", " ", "i", "n", " ">> \o to_string(v),
            Content(<<<<"T", "h", "e", " ", "o", "l", "d", " ", "A", "P", "I", " ", "i", "s", " ", "g", "o", "n", "e", ".">>,
                      <<"I", "m", "p", "a", "c", "t", ":", " ", "c", "l", "i", "e", "n", "t", "s", " ", "f", "a", "i", "l", ".">>,
                      <<"A", "c", "t", "i", "o", "n", ":", " ", "u", "p", "g", "r", "a", "d", "e", ".">>,
                      <<"F", "o", "r", " ", "m", "o", "r", "e", " ", "i", "n", "f", "o", "r", "m", "a", "t", "i", "o", "n", ",", " ", "v", "i", "e", "w", " ", "#", "4", "3", "2", "1", ".">>>>,
                    <<4321>>))
Marker == Tag("p", <<"T", "h", "e", "r", "e", " ", "a", "r", "e", " ", "n", "o", " ", "b", "r", "e", "a", "k", "i", "n", "g", " ", "c", "h", "a", "n", "g", "e", "s", " ", "i", "n", " ", "t", "h", "i", "s", " ", "r", "e", "l", "e", "a", "s", "e", ".">>)
Category == Tag("p", <<"M", "a", "p", "p", "i", "n", "g", ":">>)

Block(v, elements) == [version |-> v, elements |-> elements]

\* the block of v on a release-notes page
NotesBlock(product_name, v, anchor, section) ==
    Block(v, <<VersionAnchor(product_name, v, anchor, RELEASE_NOTES), SectionHeading(section),
               Ul(<<ItemOf(v)>>)>>)

\* what a breaking-changes page writes under a version
BreakingBodies == {"marker", "list", "details", "category list", "list marker",
                   "details marker", "marker list"}
BreakingBody(v, body) ==
    CASE body = "marker" -> <<Marker>>
      [] body = "list" -> <<Ul(<<ItemOf(v)>>)>>
      [] body = "details" -> <<DetailsOf(v)>>
      [] body = "category list" -> <<Category, Ul(<<ItemOf(v)>>)>>
      [] body = "list marker" -> <<Ul(<<ItemOf(v)>>), Marker>>
      [] body = "details marker" -> <<DetailsOf(v), Marker>>
      [] OTHER -> <<Marker, Ul(<<ItemOf(v)>>)>>

\* the block of v on a breaking-changes page
BreakingBlock(product_name, v, anchor, body) ==
    Block(v, <<VersionAnchor(product_name, v, anchor, BREAKING_CHANGES)>> \o BreakingBody(v, body))

\* the versions of a page: distinct, in any order
VersionLists ==
    {vs \in SeqsUpTo(ModernVersions, MaxBlocks) :
        vs # <<>> /\ \A i, j \in 1..Len(vs) : i # j => vs[i] # vs[j]}

Page(product_name, blocks) == [product |-> product_name, blocks |-> blocks]

NotesPages ==
    {Page(p, [i \in 1..Len(vs) |-> NotesBlock(p, vs[i], anchor, section)]) :
        p \in ModernProducts, vs \in VersionLists, anchor \in AnchorStyles,
        section \in SectionStyles}

BreakingPages ==
    {Page(p[1], [i \in 1..Len(vs) |-> BreakingBlock(p[1], vs[i], p[2], p[3])]) :
        p \in ModernProducts \X {"id", "h3"} \X BreakingBodies, vs \in VersionLists}

RECURSIVE Elements(_)
\* the page's elements in document order
Elements(blocks) ==
    IF blocks = <<>> THEN <<>> ELSE Head(blocks).elements \o Elements(Tail(blocks))

NoPage == [product |-> <<>>, version |-> Release(0, 0, 0), blocks |-> <<>>]

InitModern ==
    /\ kind \in {"release notes", "breaking changes"} /\ applied = FALSE
    /\ \E v \in ModernVersions :
           \E page \in (IF kind = "release notes" THEN NotesPages ELSE BreakingPages) :
               mod_in = [product |-> page.product, version |-> v, blocks |-> page.blocks]
    /\ mod_out = NotExtracted

\* parser.parse_release_notes_for_version(html, version, product)
ParseNotesForVersion ==
    /\ kind = "release notes" /\ ~applied
    /\ applied' = TRUE
    /\ mod_out' = parse_release_notes_for_version(Elements(mod_in.blocks), mod_in.version,
                                                   mod_in.product)
    /\ UNCHANGED <<kind, mod_in>>

\* parser.parse_breaking_changes_for_version(html, version, product)
ParseBreakingForVersion ==
    /\ kind = "breaking changes" /\ ~applied
    /\ applied' = TRUE
    /\ mod_out' = parse_breaking_changes_for_version(Elements(mod_in.blocks), mod_in.version,
                                                      mod_in.product)
    /\ UNCHANGED <<kind, mod_in>>

(***************************************************************************)
(* _fetch_complete_release (compiler.py, async_compiler.py)                *)
(***************************************************************************)
\* What the fetcher answers to the four fetches of one version:
\* a value, None ("absent") or an exception ("raise").
PrimaryNote(sections) == [kind |-> "note", sections |-> sections]
PrimaryAbsent == [kind |-> "absent", sections |-> NoSections]
PrimaryRaise == [kind |-> "raise", sections |-> NoSections]
AuxSection(items) == [kind |-> "section", items |-> items]
AuxAbsent == [kind |-> "absent", items |-> <<>>]
AuxRaise == [kind |-> "raise", items |-> <<>>]

\* the result of a unit: a ReleaseNote, None or an exception
UnitNote(note) == [how |-> "note", note |-> note]
UnitNone == [how |-> "none", note |-> ReleaseNote(Release(0, 0, 0), NoSections)]
UnitRaised == [how |-> "raised", note |-> ReleaseNote(Release(0, 0, 0), NoSections)]
UnitPending == [how |-> "pending", note |-> ReleaseNote(Release(0, 0, 0), NoSections)]

\* hasattr(fetcher, 'fetch_deprecations') / hasattr(fetcher, 'fetch_known_issues')
has_optional_fetches(fetcher) == fetcher = "modern"

merge_breaking_mutant(sections, breaking) ==
    IF breaking.kind = "section" /\ ~is_empty(breaking)
    THEN [sections EXCEPT !["breaking_changes"] =
                              ReleaseSection(@.items \o breaking.items)]
    ELSE sections

\* The breaking-changes step: insert the section, or append the items whose
\* description is not among those present before the loop.
merge_breaking(sections, breaking) ==
    IF breaking.kind = "section" /\ ~is_empty(breaking)
    THEN IF ~sections["breaking_changes"].present
         THEN [sections EXCEPT !["breaking_changes"] = ReleaseSection(breaking.items)]
         ELSE LET existing == sections["breaking_changes"]
                  existing_descs == {existing.items[i].description :
                                        i \in 1..Len(existing.items)}
                  added == SelectSeq(breaking.items,
                                     LAMBDA item : item.description \notin existing_descs)
              IN  [sections EXCEPT !["breaking_changes"] =
                                        ReleaseSection(existing.items \o added)]
    ELSE sections

\* The deprecations and known-issues steps: insert only when the key is absent.
insert_if_absent(sections, type, aux) ==
    IF aux.kind = "section" /\ ~is_empty(aux) /\ ~sections[type].present
    THEN [sections EXCEPT ![type] = ReleaseSection(aux.items)]
    ELSE sections

fetch_complete_release_mutant(fetcher, version, r) ==
    IF r.primary.kind = "raise" THEN UnitRaised
    ELSE LET base == IF r.primary.kind = "absent" THEN NoSections ELSE r.primary.sections
             s1 == merge_breaking(base, r.breaking)
         IN  UnitNote(ReleaseNote(version, s1))

\* The note being enriched: its sections, the auxiliary fetches made so far,
\* and whether an exception has left the unit.
Enriching(sections) == [sections |-> sections, attempted |-> <<>>, raised |-> FALSE]

try_step_mutant(state, name, response, merged) ==
    IF state.raised THEN state
    ELSE IF response.kind = "raise"
    THEN [state EXCEPT !.attempted = Append(@, name), !.raised = TRUE]
    ELSE [state EXCEPT !.sections = merged, !.attempted = Append(@, name)]

\* One enrichment step inside its own try / except Exception: the fetch is
\* made; when it raises, the exception is logged and the note stays as it is.
try_step(state, name, response, merged) ==
    [sections |-> IF response.kind = "raise" THEN state.sections ELSE merged,
     attempted |-> Append(state.attempted, name),
     raised |-> state.raised]

\* the three enrichment steps of _fetch_complete_release
enrich(fetcher, r) ==
    LET e0 == Enriching(r.primary.sections)
        e1 == try_step(e0, "breaking_changes", r.breaking,
                       merge_breaking(e0.sections, r.breaking))
        e2 == IF has_optional_fetches(fetcher)
              THEN try_step(e1, "deprecations", r.deprecations,
                            insert_if_absent(e1.sections, "deprecations", r.deprecations))
              ELSE e1
        e3 == IF has_optional_fetches(fetcher)
              THEN try_step(e2, "known_issues", r.known_issues,
                            insert_if_absent(e2.sections, "known_issues", r.known_issues))
              ELSE e2
    IN  e3

\* _fetch_complete_release, after admission
fetch_complete_release(fetcher, version, r) ==
    IF r.primary.kind = "raise" THEN UnitRaised
    ELSE IF r.primary.kind = "absent" THEN UnitNone
    ELSE LET e == enrich(fetcher, r)
         IN  IF e.raised THEN UnitRaised
             ELSE UnitNote(ReleaseNote(version, e.sections))

(***************************************************************************)
(* SpecEnrich: the enrichment of one primary note by drawn answers         *)
(***************************************************************************)
DropX == <<"D", "r", "o", "p", " ", "X">>
DropXLower == <<"d", "r", "o", "p", " ", "x">>
NewLimit == <<"N", "e", "w", " ", "l", "i", "m", "i", "t">>
OldSetting == <<"O", "l", "d", " ", "s", "e", "t", "t", "i", "n", "g">>
SlowQuery == <<"S", "l", "o", "w", " ", "q", "u", "e", "r", "y">>

BreakingItems == {ReleaseItem(DropX, 0), ReleaseItem(DropXLower, 0), ReleaseItem(NewLimit, 0)}
BreakingLists == SeqsUpTo(BreakingItems, MaxItems)

\* the primary notes: with or without a breaking-changes section; without a
\* deprecations section, with the empty one the modern extractor creates at
\* a "Deprecations" heading that no list follows, or with a populated one
PrimarySections ==
    {[NoSections EXCEPT !["breaking_changes"] = b, !["deprecations"] = d] :
        b \in {NoSection} \cup {ReleaseSection(q) : q \in BreakingLists},
        d \in {NoSection, ReleaseSection(<<>>),
                ReleaseSection(<<ReleaseItem(OldSetting, 0)>>)}}

BreakingAnswers == {AuxAbsent, AuxRaise} \cup {AuxSection(q) : q \in BreakingLists}
DeprecationAnswers == {AuxAbsent, AuxRaise, AuxSection(<<ReleaseItem(NewLimit, 0)>>)}
KnownIssueAnswers == {AuxAbsent, AuxRaise, AuxSection(<<ReleaseItem(SlowQuery, 0)>>)}

DefaultEnrIn ==
    [fetcher |-> "none", primary |-> PrimaryAbsent, breaking |-> AuxAbsent,
     deprecations |-> AuxAbsent, known_issues |-> AuxAbsent]
DefaultEnrOut ==
    [unit |-> UnitPending, attempted |-> <<>>, once |-> NoSections, twice |-> NoSections]

InitEnrich ==
    /\ kind = "enrich" /\ applied = FALSE
    /\ enr_in \in [fetcher : {"legacy", "modern"},
                    primary : {PrimaryNote(p) : p \in PrimarySections},
                    breaking : BreakingAnswers,
                    deprecations : DeprecationAnswers,
                    known_issues : KnownIssueAnswers]
    /\ enr_out = DefaultEnrOut

\* _fetch_complete_release on a version whose primary note was fetched; and
\* the breaking-changes merge applied once and once more with the same answer
Enrich ==
    /\ kind = "enrich" /\ ~applied
    /\ applied' = TRUE
    /\ LET once == merge_breaking(enr_in.primary.sections, enr_in.breaking)
       IN  enr_out' = [unit |-> fetch_complete_release(enr_in.fetcher, V9_0_0, enr_in),
                       attempted |-> enrich(enr_in.fetcher, enr_in).attempted,
                       once |-> once,
                       twice |-> merge_breaking(once, enr_in.breaking)]
    /\ UNCHANGED <<kind, enr_in>>

(***************************************************************************)
(* discover_versions and compile_product (compiler.py, async_compiler.py)  *)
(***************************************************************************)
\* the elements of a list
Range(q) == {q[i] : i \in 1..Len(q)}

RECURSIVE SetToSeq(_)
SetToSeq(S) ==
    IF S = {} THEN <<>>
    ELSE LET x == CHOOSE y \in S : TRUE IN <<x>> \o SetToSeq(S \ {x})

\* The answer of fetch_available_versions: the list of versions it returned,
\* or an exception.
Versions(list) == [raised |-> FALSE, versions |-> list]
VersionsRaise == [raised |-> TRUE, versions |-> <<>>]

RECURSIVE set_update(_, _)
\* set(versions) and all_versions.update(versions): a version that is equal
\* (==, with the same hash) to one the set holds is not added, so of equal
\* versions the first stays. The set is kept as the list of its elements.
set_update(held, versions) ==
    IF versions = <<>> THEN held
    ELSE set_update(IF \E i \in 1..Len(held) :
                           /\ VHash(held[i]) = VHash(Head(versions))
                           /\ VEq(held[i], Head(versions))
                    THEN held ELSE Append(held, Head(versions)),
                    Tail(versions))

\* sorted(all_versions, reverse=True) of versions no two of which are equal
sorted_reverse(held) == Reversed(Sorted(held))

discover_versions_mutant(p, legacy_answer, modern_answer) ==
    IF legacy_answer.raised \/ modern_answer.raised THEN <<>>
    ELSE sorted_reverse(set_update(set_update(<<>>, legacy_answer.versions),
                                   modern_answer.versions))

\* discover_versions: sorted(set(legacy_versions) | set(modern_versions),
\* reverse=True); the union keeps the left operand's element of two equal
\* ones.
discover_versions(p, legacy_answer, modern_answer) ==
    LET legacy_versions ==
            IF get_fetchers(p).legacy # "none" /\ PRODUCTS(p).has_legacy_docs
                  /\ ~legacy_answer.raised
            THEN legacy_answer.versions ELSE <<>>
        modern_versions ==
            IF ~modern_answer.raised THEN modern_answer.versions ELSE <<>>
    IN  sorted_reverse(set_update(set_update(<<>>, legacy_versions),
                                  set_update(<<>>, modern_versions)))

async_discover_versions_mutant(p, legacy_answer, modern_answer) ==
    sorted_reverse(set_update(<<>>,
        IF modern_answer.raised THEN <<>> ELSE modern_answer.versions))

RECURSIVE update_all(_, _)
\* for name, task in tasks: try: all_versions.update(await task), the
\* answer of a task that raised being skipped
update_all(all_versions_set, tasks) ==
    IF tasks = <<>> THEN all_versions_set
    ELSE update_all(IF Head(tasks).raised THEN all_versions_set
                    ELSE set_update(all_versions_set, Head(tasks).versions),
                    Tail(tasks))

\* The coroutine discover_versions: the list of (name, task) pairs, awaited
\* one after the other, each in its own try / except Exception, with
\* all_versions.update(versions); then sorted(all_versions, reverse=True).
async_discover_versions(p, legacy_answer, modern_answer) ==
    LET tasks == (IF get_fetchers(p).legacy # "none" /\ PRODUCTS(p).has_legacy_docs
                  THEN <<legacy_answer>> ELSE <<>>) \o <<modern_answer>>
    IN  sorted_reverse(update_all(<<>>, tasks))

\* before discovery no answer has been given
NoDiscovery == [legacy |-> Versions(<<>>), modern |-> Versions(<<>>)]

target_versions_of_mutant(s, e, include, versions) ==
    filter_versions(s, e, versions)

\* compile_product: the range filter, then the prerelease exclusion
target_versions_of(s, e, include, versions) ==
    LET in_range == filter_versions(s, e, versions)
    IN  IF ~include THEN SelectSeq(in_range, LAMBDA v : ~is_prerelease(v))
        ELSE in_range

RECURSIVE InsertByVersion(_, _)
InsertByVersion(r, s) ==
    IF s = <<>> THEN <<r>>
    ELSE IF VLt(r.version, Head(s).version) THEN <<r>> \o s
    ELSE <<Head(s)>> \o InsertByVersion(r, Tail(s))

RECURSIVE SortByVersion(_)
\* a stable ascending sort on the key r.version
SortByVersion(s) ==
    IF s = <<>> THEN <<>>
    ELSE InsertByVersion(s[Len(s)], SortByVersion(SubSeq(s, 1, Len(s) - 1)))

sort_releases_mutant(s) == s

\* releases.sort(key=lambda r: r.version)
sort_releases(s) == SortByVersion(s)

\* CompiledReleaseNotes, or the exception compile_product raised
Compiled(s, e, rs) ==
    [how |-> "returned", start_version |-> s, end_version |-> e, releases |-> rs]
NotReturned ==
    [how |-> "running", start_version |-> Release(0, 0, 0),
     end_version |-> Release(0, 0, 0), releases |-> <<>>]
CompileRaised ==
    [how |-> "raised", start_version |-> Release(0, 0, 0),
     end_version |-> Release(0, 0, 0), releases |-> <<>>]

actual_end_mutant(s, e, targets) ==
    IF e.given THEN e.v ELSE s

\* actual_end = target_versions[-1] if target_versions else start; end wins
actual_end(s, e, targets) ==
    IF e.given THEN e.v
    ELSE IF targets # <<>> THEN targets[Len(targets)] ELSE s

admits_mutant(free) == free >= 0

\* A unit is admitted while a permit of the semaphore (a worker of the pool)
\* is free.
admits(free) == free > 0

\* What the except clause around a unit's result leaves of an exception:
\* nothing reaches the caller of compile_product.
on_unit_exception_mutant(current) == CompileRaised
on_unit_exception(current) == current

(***************************************************************************)
(* Inputs of a compile_product run                                         *)
(***************************************************************************)
\* the product keys tried: those of the registry and one that is not in it
ProductKeys == Products \cup {"no-such-product"}

\* the texts given as start_version and end_version; end_version may be None
NoText == [given |-> FALSE, text |-> <<>>]
Text(t) == [given |-> TRUE, text |-> t]
StartTexts == {<<"8", ".", "5", ".", "0">>, <<"9", ".", "0", ".", "0">>, <<"l", "a", "t", "e", "s", "t">>}
EndTexts == {NoText, Text(<<>>), Text(<<"9", ".", "1", ".", "0">>), Text(<<"9", ".", "x">>)}

\* product in PRODUCTS
product_is_known(p) == p \in Products

parse_arguments_mutant(start_text, end_text) ==
    LET s == parse(start_text)
        e == IF end_text.given /\ end_text.text # <<>> THEN parse(end_text.text)
             ELSE ParseError
    IN  [ok |-> s.ok,
         start |-> s.version,
         end |-> IF e.ok THEN SomeEnd(e.version) ELSE NoEnd]

\* start = Version.parse(start_version)
\* end = Version.parse(end_version) if end_version else None
parse_arguments(start_text, end_text) ==
    LET s == parse(start_text)
        has_end == end_text.given /\ end_text.text # <<>>
        e == IF has_end THEN parse(end_text.text) ELSE ParseError
    IN  [ok |-> s.ok /\ (has_end => e.ok),
         start |-> s.version,
         end |-> IF has_end /\ e.ok THEN SomeEnd(e.version) ELSE NoEnd]

\* the fetch_available_versions calls of discover_versions
discover_calls(p) ==
    IF get_fetchers(p).legacy # "none" /\ PRODUCTS(p).has_legacy_docs THEN 2 ELSE 1

\* the fetch calls of one unit: the primary fetch, then the enrichment fetches
unit_calls(fetcher, r) ==
    IF r.primary.kind = "note" THEN 1 + Len(enrich(fetcher, r).attempted) ELSE 1
\* the lists the clients return are sorted(set(...), reverse=True); "8.19.0-rc1"
\* of the legacy site and "8.19.0-rc01" of the modern one are equal versions
LegacyAnswers == {VersionsRaise, Versions(<<V8_19_0>>), Versions(<<V8_19_0, V8_19_0_rc1>>)}
ModernAnswers == {VersionsRaise, Versions(<<>>),
                  Versions(<<V9_2_0_beta1, V9_1_0, V9_0_0>>),
                  Versions(<<V9_1_0, V8_19_0>>),
                  Versions(<<V9_1_0, V8_19_0_rc01>>)}

Removed == ReleaseItem("Removed API", 0)
Limit == ReleaseItem("New limit", 0)
Fixed == ReleaseItem("Fixed crash", 1234)
Deprecated == ReleaseItem("Old setting", 0)

\* the responses one unit can meet
Profiles ==
    { \* no primary note, although the auxiliary pages have content
      [primary |-> PrimaryAbsent, breaking |-> AuxSection(<<Removed>>),
       deprecations |-> AuxSection(<<Deprecated>>), known_issues |-> AuxAbsent],
      \* the primary fetch raises
      [primary |-> PrimaryRaise, breaking |-> AuxAbsent,
       deprecations |-> AuxAbsent, known_issues |-> AuxAbsent],
      \* a plain note, nothing to enrich with
      [primary |-> PrimaryNote([NoSections EXCEPT !["bug_fixes"] = ReleaseSection(<<Fixed>>)]),
       breaking |-> AuxAbsent, deprecations |-> AuxAbsent, known_issues |-> AuxAbsent],
      \* a note with breaking changes, enriched; the known-issues fetch raises
      [primary |-> PrimaryNote([NoSections EXCEPT !["breaking_changes"] = ReleaseSection(<<Removed>>)]),
       breaking |-> AuxSection(<<Removed, Limit>>),
       deprecations |-> AuxSection(<<Deprecated>>), known_issues |-> AuxRaise] }

NoProfile ==
    [primary |-> PrimaryAbsent, breaking |-> AuxAbsent,
     deprecations |-> AuxAbsent, known_issues |-> AuxAbsent]

CompileIdle ==
    /\ mode = "none" /\ product = "elasticsearch" /\ max_workers = 0
    /\ start_version = <<>> /\ end_version = NoText /\ fetch_calls = 0
    /\ start = V9_0_0 /\ end = NoEnd /\ include_prereleases = FALSE
    /\ pc = "idle" /\ all_versions = <<>> /\ target_versions = <<>>
    /\ unit = <<>> /\ resp = <<>> /\ outcome = <<>>
    /\ calls_made = <<>> /\ as_completed_called = FALSE /\ finished_at_call = {}
    /\ semaphore = 0 /\ idle_workers = 0 /\ done_queue = <<>>
    /\ completion_order = <<>>
    /\ releases = <<>> /\ result = NotReturned
    /\ callback = FALSE /\ with_progress = FALSE /\ progress = <<>>
    /\ interrupted = FALSE /\ at_interrupt = <<>> /\ clients = "none"
    /\ discovery = NoDiscovery

\* The call of the constructor with one product, to be followed by
\* compile_product with the texts of the start and end versions.
InitCompile ==
    /\ mode \in {"thread", "async"}
    /\ product \in ProductKeys
    /\ max_workers \in 1..MaxWorkers
    /\ start_version \in StartTexts
    /\ end_version \in EndTexts
    /\ fetch_calls = 0
    /\ start = V9_0_0
    /\ end = NoEnd
    /\ include_prereleases \in BOOLEAN
    \* the runs from 8.5.0 are drawn without prereleases: a run has at most
    \* three target versions
    /\ (include_prereleases => start_version # <<"8", ".", "5", ".", "0">>)
    /\ pc = "construct"
    /\ all_versions = <<>> /\ target_versions = <<>>
    /\ unit = <<>> /\ resp = <<>> /\ outcome = <<>>
    /\ calls_made = <<>> /\ as_completed_called = FALSE /\ finished_at_call = {}
    /\ semaphore = max_workers
    /\ idle_workers = 0
    /\ done_queue = <<>>
    /\ completion_order = <<>>
    /\ releases = <<>>
    /\ result = NotReturned
    /\ callback = FALSE
    \* the runs of the ...WithProgress subclasses, whose compile_product
    \* differs from the base classes' by the progress bar alone, and the
    \* runs with a progress callback are drawn apart (InitMain, InitProgress)
    /\ with_progress = FALSE
    /\ progress = <<>>
    /\ interrupted = FALSE
    /\ at_interrupt = <<>>
    /\ clients = "none"
    /\ discovery = NoDiscovery

Running == {i \in 1..Len(unit) : unit[i] = "running"}

\* __init__: an unknown product raises ValueError and no compiler exists.
Construct ==
    /\ pc = "construct"
    /\ pc' = IF product_is_known(product) THEN "enter" ELSE "rejected"
    /\ UNCHANGED <<calls_made, as_completed_called, finished_at_call, discovery, callback, with_progress, interrupted, at_interrupt, progress, clients,
                   mode, product, start_version, end_version, fetch_calls, max_workers,
                   start, end, include_prereleases, all_versions, target_versions, unit,
                   resp, outcome, semaphore, idle_workers, done_queue, completion_order,
                   releases, result>>

\* The first lines of compile_product: the two Version.parse calls.
Enter ==
    /\ pc = "enter"
    /\ LET arguments == parse_arguments(start_version, end_version)
       IN  IF arguments.ok
           THEN /\ start' = arguments.start
                /\ end' = arguments.end
                /\ pc' = "discover"
                /\ UNCHANGED result
           ELSE /\ result' = CompileRaised
                /\ pc' = "failed"
                /\ UNCHANGED <<start, end>>
    /\ UNCHANGED <<calls_made, as_completed_called, finished_at_call, discovery, callback, with_progress, interrupted, at_interrupt, progress, clients,
                   mode, product, start_version, end_version, fetch_calls, max_workers,
                   include_prereleases, all_versions, target_versions, unit, resp, outcome,
                   semaphore, idle_workers, done_queue, completion_order, releases>>

\* compile_product calls discover_versions, whose _get_fetchers call creates
\* the product's fetch clients, and discover_versions makes its first
\* fetch_available_versions call: the legacy client's for a product with
\* legacy docs, the modern client's otherwise. The caller waits for the
\* answer.
Discover ==
    /\ pc = "discover"
    /\ clients' = "open"
    /\ fetch_calls' = fetch_calls + 1
    /\ pc' = IF discover_calls(product) > 1 THEN "legacy" ELSE "modern"
    /\ UNCHANGED <<calls_made, as_completed_called, finished_at_call, discovery, callback, with_progress,
                   interrupted, at_interrupt, progress,
                   mode, product, start_version, end_version, max_workers,
                   start, end, include_prereleases, all_versions, target_versions, unit,
                   resp, outcome, semaphore, idle_workers, done_queue, completion_order,
                   releases, result>>

\* The legacy client's fetch_available_versions returns or raises, and
\* discover_versions calls the modern client's.
LegacyAnswer ==
    /\ pc = "legacy"
    /\ \E la \in LegacyAnswers : discovery' = [discovery EXCEPT !.legacy = la]
    /\ fetch_calls' = fetch_calls + 1
    /\ pc' = "modern"
    /\ UNCHANGED <<calls_made, as_completed_called, finished_at_call, callback, with_progress,
                   interrupted, at_interrupt, progress, clients,
                   mode, product, start_version, end_version, max_workers,
                   start, end, include_prereleases, all_versions, target_versions, unit,
                   resp, outcome, semaphore, idle_workers, done_queue, completion_order,
                   releases, result>>

\* The modern client's fetch_available_versions returns or raises:
\* discover_versions returns, and compile_product goes on to the early
\* return on an empty discovery or to the filter. The coroutine form then
\* creates every task and enters asyncio.as_completed without a wait; the
\* thread-pool form creates the pool and has yet to submit the units.
ModernAnswer ==
    /\ pc = "modern"
    /\ \E ma \in ModernAnswers :
        LET la == discovery.legacy
            found == IF mode = "thread" THEN discover_versions(product, la, ma)
                     ELSE async_discover_versions(product, la, ma)
            targets == target_versions_of(start, end, include_prereleases, found)
        IN  /\ all_versions' = found
            /\ discovery' = [discovery EXCEPT !.modern = ma]
            /\ IF found = <<>>
               THEN /\ result' = Compiled(start, IF end.given THEN end.v ELSE start, <<>>)
                    /\ pc' = "done"
                    /\ UNCHANGED <<target_versions, unit, resp, outcome, idle_workers,
                                   calls_made, as_completed_called>>
               ELSE /\ target_versions' = targets
                    /\ unit' = [i \in 1..Len(targets) |->
                                    IF mode = "thread" THEN "unsubmitted" ELSE "pending"]
                    /\ resp' = [i \in 1..Len(targets) |-> NoProfile]
                    /\ outcome' = [i \in 1..Len(targets) |-> UnitPending]
                    /\ calls_made' = [i \in 1..Len(targets) |-> 0]
                    /\ as_completed_called' = (mode = "async")
                    /\ idle_workers' = IF mode = "thread" THEN max_workers ELSE 0
                    /\ pc' = "fetch"
                    /\ UNCHANGED result
    /\ UNCHANGED <<finished_at_call, callback, with_progress, interrupted, at_interrupt, progress, clients,
                   mode, product, start_version, end_version, max_workers, start, end,
                   include_prereleases, fetch_calls,
                   semaphore, done_queue, completion_order, releases>>

\* One turn of the dict comprehension of the thread-pool compile_product:
\* executor.submit puts the next unit on the pool's queue, while the workers
\* are already running the units submitted before.
SubmitUnit(i) ==
    /\ pc = "fetch" /\ mode = "thread"
    /\ unit[i] = "unsubmitted"
    /\ \A j \in 1..(i - 1) : unit[j] # "unsubmitted"
    /\ unit' = [unit EXCEPT ![i] = "pending"]
    /\ UNCHANGED <<calls_made, as_completed_called, finished_at_call, discovery, callback, with_progress,
                   interrupted, at_interrupt, progress, clients,
                   mode, product, start_version, end_version, fetch_calls, max_workers,
                   start, end, include_prereleases, pc, all_versions, target_versions,
                   resp, outcome, semaphore, idle_workers, done_queue, completion_order,
                   releases, result>>

\* A worker thread takes the next submitted unit from the pool's queue, in
\* the order of submission, and starts _fetch_complete_release for it; the
\* unit's first fetch call is a later step, so of two units taken the later
\* one can call first. The workers go on taking units while the executor's
\* shutdown(wait=True) waits.
StartThreadUnit(i) ==
    /\ pc \in {"fetch", "shutdown"} /\ mode = "thread"
    /\ unit[i] = "pending"
    /\ \A j \in 1..(i - 1) : unit[j] \notin {"unsubmitted", "pending"}
    /\ admits(idle_workers)
    /\ idle_workers' = idle_workers - 1
    /\ unit' = [unit EXCEPT ![i] = "running"]
    /\ UNCHANGED <<calls_made, fetch_calls, resp, as_completed_called, finished_at_call,
                   discovery, callback, with_progress, interrupted, at_interrupt, progress,
                   clients, mode, product, start_version, end_version, max_workers,
                   start, end, include_prereleases, pc,
                   all_versions, target_versions, outcome, semaphore, done_queue,
                   completion_order, releases, result>>

\* A coroutine passes `async with self._semaphore` and makes the unit's
\* first fetch call. After the interrupt asyncio.run cancels the main task
\* first, so a coroutine waiting for the semaphore can still pass it, once a
\* unit in flight has given its permit back, before the tasks are cancelled.
StartAsyncUnit(i) ==
    /\ pc \in {"fetch", "cancel"} /\ mode = "async"
    /\ unit[i] = "pending"
    /\ admits(semaphore)
    /\ semaphore' = semaphore - 1
    /\ \E r \in Profiles : resp' = [resp EXCEPT ![i] = r]
    /\ unit' = [unit EXCEPT ![i] = "running"]
    /\ calls_made' = [calls_made EXCEPT ![i] = 1]
    /\ fetch_calls' = fetch_calls + 1
    /\ UNCHANGED <<as_completed_called, finished_at_call, discovery, callback, with_progress, interrupted, at_interrupt, progress, clients,
                   mode, product, start_version, end_version, max_workers, start, end,
                   include_prereleases, pc,
                   all_versions, target_versions, outcome, idle_workers, done_queue,
                   completion_order, releases, result>>

\* _fetch_complete_release makes its next fetch call: the first one, of the
\* release notes, once a worker has taken the unit, and each further one when
\* the call the unit waits for has returned; the calls of a unit are made one
\* after the other. What the fetcher answers to the unit is drawn at its
\* first call.
NextFetchCall(i) ==
    /\ pc \in {"fetch", "shutdown", "cancel"}
    /\ unit[i] = "running"
    /\ \E r \in (IF calls_made[i] = 0 THEN Profiles ELSE {resp[i]}) :
        /\ calls_made[i] < unit_calls(get_fetcher_for_version(product, target_versions[i]), r)
        /\ resp' = [resp EXCEPT ![i] = r]
    /\ calls_made' = [calls_made EXCEPT ![i] = calls_made[i] + 1]
    /\ fetch_calls' = fetch_calls + 1
    /\ UNCHANGED <<as_completed_called, finished_at_call, discovery, callback, with_progress,
                   interrupted, at_interrupt, progress, clients,
                   mode, product, start_version, end_version, max_workers, start, end,
                   include_prereleases, pc, all_versions, target_versions, unit,
                   outcome, semaphore, idle_workers, done_queue, completion_order,
                   releases, result>>

\* The last fetch call of the unit returns, _fetch_complete_release ends and
\* the unit gives its permit back; a unit in flight can still do so after the
\* interrupt.
FinishUnit(i) ==
    /\ pc \in {"fetch", "shutdown", "cancel"}
    /\ unit[i] = "running"
    /\ calls_made[i] > 0
    /\ calls_made[i] = unit_calls(get_fetcher_for_version(product, target_versions[i]),
                                  resp[i])
    /\ outcome' = [outcome EXCEPT ![i] =
                      fetch_complete_release(
                          get_fetcher_for_version(product, target_versions[i]),
                          target_versions[i], resp[i])]
    /\ unit' = [unit EXCEPT ![i] = "finished"]
    /\ done_queue' = Append(done_queue, i)
    /\ completion_order' = Append(completion_order, i)
    /\ IF mode = "thread"
       THEN idle_workers' = idle_workers + 1 /\ UNCHANGED semaphore
       ELSE semaphore' = semaphore + 1 /\ UNCHANGED idle_workers
    /\ UNCHANGED <<calls_made, as_completed_called, finished_at_call, fetch_calls,
                   discovery, callback, with_progress, interrupted, at_interrupt, progress, clients,
                   mode, product, start_version, end_version, max_workers, start, end,
                   include_prereleases, pc,
                   all_versions, target_versions, resp, releases, result>>

\* the local counter `completed` of the coroutine compile_product
completed == Len(SelectSeq(unit, LAMBDA u : u = "collected"))

\* if progress_callback: progress_callback(completed, len(target_versions))
progress_callback(given, calls, count, total) ==
    IF given THEN Append(calls, <<count, total>>) ELSE calls

\* The thread-pool compile_product has submitted every unit and calls
\* concurrent.futures.as_completed, which takes the futures that are over
\* at that moment as a set.
CallAsCompleted ==
    /\ pc = "fetch" /\ mode = "thread"
    /\ ~as_completed_called
    /\ \A i \in 1..Len(unit) : unit[i] # "unsubmitted"
    /\ as_completed_called' = TRUE
    /\ finished_at_call' = Range(done_queue)
    /\ done_queue' = <<>>
    /\ UNCHANGED <<calls_made, discovery, callback, with_progress, interrupted, at_interrupt, progress,
                   clients, mode, product, start_version, end_version, fetch_calls,
                   max_workers, start, end, include_prereleases, pc, all_versions,
                   target_versions, unit, resp, outcome, semaphore, idle_workers,
                   completion_order, releases, result>>

\* what as_completed can yield next: the futures that were over when it was
\* called come first, in the order of a set, then the others in the order in
\* which they end; asyncio.as_completed yields in the order of ending
next_completed ==
    IF finished_at_call # {} THEN finished_at_call
    ELSE IF done_queue # <<>> THEN {Head(done_queue)}
    ELSE {}

\* One turn of the as_completed loop. The loop of
\* AsyncReleaseCompiler.compile_product counts the unit and calls the
\* callback when it is given; the loops of the ...WithProgress subclasses
\* advance their progress bar, and that of
\* AsyncReleaseCompilerWithProgress.compile_product never calls the callback
\* it was given.
Collect ==
    /\ pc = "fetch"
    /\ as_completed_called
    /\ \E i \in next_completed :
        /\ IF i \in finished_at_call
           THEN finished_at_call' = finished_at_call \ {i} /\ UNCHANGED done_queue
           ELSE done_queue' = Tail(done_queue) /\ UNCHANGED finished_at_call
        /\ unit' = [unit EXCEPT ![i] = "collected"]
        /\ progress' = IF with_progress THEN progress
                       ELSE progress_callback(callback, progress, completed + 1,
                                              Len(target_versions))
        /\ IF outcome[i].how = "note"
           THEN releases' = Append(releases, outcome[i].note) /\ UNCHANGED result
           ELSE IF outcome[i].how = "raised"
           THEN result' = on_unit_exception(result) /\ UNCHANGED releases
           ELSE UNCHANGED <<releases, result>>
    /\ UNCHANGED <<calls_made, as_completed_called,
                   discovery, callback, with_progress, interrupted, at_interrupt, clients,
                   mode, product, start_version, end_version, fetch_calls, max_workers, start, end,
                   include_prereleases, pc,
                   all_versions, target_versions, resp, outcome, semaphore,
                   idle_workers, completion_order>>

\* After the as_completed loop, which is entered with no unit too: the
\* sort, the end version and the return.
Finish ==
    /\ pc = "fetch"
    /\ as_completed_called
    /\ \A i \in 1..Len(unit) : unit[i] = "collected"
    /\ releases' = sort_releases(releases)
    /\ result' = IF result.how = "raised" THEN result
                 ELSE Compiled(start, actual_end(start, end, target_versions),
                               sort_releases(releases))
    /\ pc' = "done"
    /\ UNCHANGED <<calls_made, as_completed_called, finished_at_call, discovery, callback, with_progress, interrupted, at_interrupt, progress, clients,
                   mode, product, start_version, end_version, fetch_calls, max_workers, start, end,
                   include_prereleases,
                   all_versions, target_versions, unit, resp, outcome, semaphore,
                   idle_workers, done_queue, completion_order>>

(***************************************************************************)
(* The run under cli.main: the user's interrupt during the fetch stage and *)
(* the closing of the fetch clients (cli.py, compiler.py,                  *)
(* async_compiler.py)                                                      *)
(***************************************************************************)
\* what is left of compile_product when KeyboardInterrupt leaves it
CompileInterrupted ==
    [how |-> "interrupted", start_version |-> Release(0, 0, 0),
     end_version |-> Release(0, 0, 0), releases |-> <<>>]

\* A compile_product call made under main, which builds a compiler of the
\* base class or of its ...WithProgress subclass with the products alone:
\* the limit is the default of the constructor, and compile_all passes no
\* progress callback.
InitMain ==
    /\ mode \in {"thread", "async"}
    /\ product = "elasticsearch"
    /\ max_workers = (IF mode = "thread" THEN default_max_workers
                                         ELSE default_max_concurrent)
    /\ start_version = <<"9", ".", "0", ".", "0">>
    /\ end_version = NoText
    /\ fetch_calls = 0
    /\ start = V9_0_0
    /\ end = NoEnd
    /\ include_prereleases \in BOOLEAN
    /\ pc = "construct"
    /\ all_versions = <<>> /\ target_versions = <<>>
    /\ unit = <<>> /\ resp = <<>> /\ outcome = <<>>
    /\ calls_made = <<>> /\ as_completed_called = FALSE /\ finished_at_call = {}
    /\ semaphore = max_workers
    /\ idle_workers = 0
    /\ done_queue = <<>>
    /\ completion_order = <<>>
    /\ releases = <<>>
    /\ result = NotReturned
    /\ callback = FALSE
    /\ with_progress \in BOOLEAN
    /\ progress = <<>>
    /\ interrupted = FALSE
    /\ at_interrupt = <<>>
    /\ clients = "none"
    /\ discovery = NoDiscovery

\* A compile_product call made on a compiler of any of the four classes,
\* the base classes and their ...WithProgress subclasses: compile_product of
\* AsyncReleaseCompiler and of AsyncReleaseCompilerWithProgress have the
\* progress_callback parameter, those of the thread-pool classes have not.
InitProgress ==
    /\ mode \in {"thread", "async"}
    /\ product = "elasticsearch"
    /\ max_workers \in 1..MaxWorkers
    /\ start_version = <<"9", ".", "0", ".", "0">>
    /\ end_version = NoText
    /\ fetch_calls = 0
    /\ start = V9_0_0
    /\ end = NoEnd
    /\ include_prereleases \in BOOLEAN
    /\ pc = "construct"
    /\ all_versions = <<>> /\ target_versions = <<>>
    /\ unit = <<>> /\ resp = <<>> /\ outcome = <<>>
    /\ calls_made = <<>> /\ as_completed_called = FALSE /\ finished_at_call = {}
    /\ semaphore = max_workers
    /\ idle_workers = 0
    /\ done_queue = <<>>
    /\ completion_order = <<>>
    /\ releases = <<>>
    /\ result = NotReturned
    /\ callback \in (IF mode = "async" THEN BOOLEAN ELSE {FALSE})
    /\ with_progress \in BOOLEAN
    /\ progress = <<>>
    /\ interrupted = FALSE
    /\ at_interrupt = <<>>
    /\ clients = "none"
    /\ discovery = NoDiscovery

\* SIGINT arrives while compile_product waits for an answer of discovery,
\* submits the units or is in its as_completed loop.
\* During discovery KeyboardInterrupt (for the coroutine, the cancellation of
\* the main task), which no except Exception clause catches, leaves
\* compile_product at once: no unit exists yet, the clients are open.
\* Thread pool: KeyboardInterrupt is raised in the main thread and leaves the
\* with block through ThreadPoolExecutor.__exit__, which is
\* shutdown(wait=True); the units not yet submitted never are.
\* Coroutines: asyncio.run cancels the main task, then every other task.
Interrupt ==
    /\ pc \in {"legacy", "modern", "fetch"}
    /\ ~interrupted
    /\ interrupted' = TRUE
    /\ at_interrupt' = unit
    /\ pc' = IF pc # "fetch" THEN "interrupted"
             ELSE IF mode = "thread" THEN "shutdown" ELSE "cancel"
    /\ result' = IF pc # "fetch" THEN CompileInterrupted ELSE result
    /\ UNCHANGED <<calls_made, as_completed_called, finished_at_call, unit, semaphore, clients,
                   mode, product, start_version, end_version, fetch_calls, max_workers,
                   start, end, include_prereleases, all_versions, target_versions,
                   resp, outcome, idle_workers, done_queue, completion_order,
                   releases, callback, with_progress, progress, discovery>>

\* shutdown(wait=True) returns once the workers have run every submitted
\* unit; KeyboardInterrupt then leaves compile_product.
ExecutorExit ==
    /\ pc = "shutdown"
    /\ \A i \in 1..Len(unit) : unit[i] \in {"unsubmitted", "finished", "collected"}
    /\ result' = CompileInterrupted
    /\ pc' = "interrupted"
    /\ UNCHANGED <<calls_made, as_completed_called, finished_at_call, unit, semaphore, interrupted, at_interrupt, clients,
                   mode, product, start_version, end_version, fetch_calls, max_workers,
                   start, end, include_prereleases, all_versions, target_versions,
                   resp, outcome, idle_workers, done_queue, completion_order,
                   releases, callback, with_progress, progress, discovery>>

\* asyncio.run cancels the tasks left: one waiting for the semaphore never
\* passes it, one in flight is abandoned at its await and gives its permit
\* back. KeyboardInterrupt then leaves asyncio.run.
CancelTasks ==
    /\ pc = "cancel"
    /\ unit' = [i \in 1..Len(unit) |->
                    IF unit[i] = "pending" THEN "cancelled"
                    ELSE IF unit[i] = "running" THEN "abandoned"
                    ELSE unit[i]]
    /\ semaphore' = semaphore + Len(SelectSeq(unit, LAMBDA u : u = "running"))
    /\ result' = CompileInterrupted
    /\ pc' = "interrupted"
    /\ UNCHANGED <<calls_made, as_completed_called, finished_at_call, interrupted, at_interrupt, clients,
                   mode, product, start_version, end_version, fetch_calls, max_workers,
                   start, end, include_prereleases, all_versions, target_versions,
                   resp, outcome, idle_workers, done_queue, completion_order,
                   releases, callback, with_progress, progress, discovery>>

\* main's finally clause: compiler.close() closes every client created.
Close ==
    /\ pc \in {"done", "failed", "interrupted"}
    /\ clients = "open"
    /\ clients' = "closed"
    /\ UNCHANGED <<calls_made, as_completed_called, finished_at_call, unit, semaphore, result, interrupted, at_interrupt, pc,
                   mode, product, start_version, end_version, fetch_calls, max_workers,
                   start, end, include_prereleases, all_versions, target_versions,
                   resp, outcome, idle_workers, done_queue, completion_order,
                   releases, callback, with_progress, progress, discovery>>

(***************************************************************************)
(* Legacy minor discovery (fetchers/async_legacy.py)                       *)
(* fetch_available_versions first asks _discover_all_minors for the 8.x    *)
(* minors whose documentation exists, one probe of an index page at a      *)
(* time, then requests the index page of every minor again, one at a time, *)
(* and scans it for version links. A minor "8.m" is the number m. A        *)
(* request is answered with a page, an empty body, 404 (fetch_page returns *)
(* None) or an error that outlasts the retries (fetch_page raises, which   *)
(* neither _discover_all_minors nor fetch_available_versions catches).     *)
(* index_pages is what the site answers to the probe of each minor above   *)
(* the last known one; fetch_page keeps no page, so the answer to the      *)
(* second request of a minor is drawn anew and recorded in scan_pages.     *)
(* Each await of fetch_page is a point where the call can be cancelled.    *)
(* The links of an index page are the versions it lists.                   *)
(***************************************************************************)
MaxNewMinors == 5    \* minors above the last known one the site may hold

\* KNOWN_8X_MINORS = ["8.17", "8.18", "8.19"]
KNOWN_8X_MINORS == <<17, 18, 19>>

\* int(KNOWN_8X_MINORS[-1].split(".")[1])
last_known_minor == KNOWN_8X_MINORS[Len(KNOWN_8X_MINORS)]

\* range(last_known_minor + 1, last_known_minor + 5) holds four minors
ProbeLimit == 4
probe_range == (last_known_minor + 1)..(last_known_minor + ProbeLimit)

NewMinors == (last_known_minor + 1)..(last_known_minor + MaxNewMinors)
\* what fetch_page gives for a request: the body, "", None, or it raises
PageAnswers == {"page", "empty", "404", "raise"}
IndexPages == [NewMinors -> PageAnswers]

html_found_mutant(html) == html # "404"

\* if html: a page with a body
html_found(html) == html = "page"

\* VERSION_LINK_PATTERN.finditer(html) with version.major == 8: the
\* versions an index page links to
linked_versions(minor, html) ==
    IF html = "page" THEN {Release(8, minor, 0), Release(8, minor, 1)} ELSE {}

\* the loop over all_minors of fetch_available_versions and its return,
\* pages[i] being what fetch_page gave for all_minors[i]: a fetch_page that
\* raises ends the call with the exception, a minor without a page is
\* skipped
scan_minors(all_minors, pages) ==
    IF \E i \in 1..Len(pages) : pages[i] = "raise"
    THEN VersionsRaise
    ELSE Versions(Reversed(Sorted(SetToSeq(
             UNION {linked_versions(all_minors[i], pages[i]) :
                       i \in {j \in 1..Len(pages) : html_found(pages[j])}}))))

MinorsIdle ==
    /\ index_pages = <<>> /\ lpc = "idle" /\ minors = <<>>
    /\ next_minor_num = 0 /\ probes = <<>> /\ scan_pages = <<>>
    /\ available = Versions(<<>>)

\* fetch_available_versions is called: minors = list(KNOWN_8X_MINORS)
InitMinors ==
    /\ index_pages \in IndexPages
    /\ lpc = "probe"
    /\ minors = KNOWN_8X_MINORS
    /\ next_minor_num = last_known_minor + 1
    /\ probes = <<>>
    /\ scan_pages = <<>>
    /\ available = Versions(<<>>)

\* one turn of the probing loop: html = await self.fetch_page(probe_url); a
\* fetch_page that raises ends fetch_available_versions with the exception
ProbeMinor ==
    /\ lpc = "probe"
    /\ next_minor_num \in probe_range
    /\ probes' = Append(probes, next_minor_num)
    /\ LET html == index_pages[next_minor_num]
       IN  IF html = "raise"
           THEN /\ lpc' = "raised"
                /\ available' = VersionsRaise
                /\ UNCHANGED <<minors, next_minor_num>>
           ELSE IF html_found(html)
           THEN /\ minors' = Append(minors, next_minor_num)
                /\ next_minor_num' = next_minor_num + 1
                /\ lpc' = IF next_minor_num + 1 \in probe_range THEN "probe" ELSE "scan"
                /\ UNCHANGED available
           ELSE /\ lpc' = "scan"
                /\ UNCHANGED <<minors, next_minor_num, available>>
    /\ UNCHANGED <<index_pages, scan_pages>>

\* one turn of the loop over all_minors: html = await self.fetch_page(url)
\* for the next minor, whatever the probe of that minor was answered. A
\* fetch_page that raises ends the call; after the last minor the versions
\* found are returned.
ScanMinor ==
    /\ lpc = "scan"
    /\ Len(scan_pages) < Len(minors)
    /\ \E html \in PageAnswers :
        /\ scan_pages' = Append(scan_pages, html)
        /\ IF html = "raise"
           THEN lpc' = "raised" /\ available' = VersionsRaise
           ELSE IF Len(scan_pages) + 1 = Len(minors)
           THEN lpc' = "returned" /\ available' = scan_minors(minors, scan_pages')
           ELSE UNCHANGED <<lpc, available>>
    /\ UNCHANGED <<index_pages, minors, next_minor_num, probes>>

\* The task that runs fetch_available_versions is cancelled while it waits
\* at an await of fetch_page, in the probing loop or in the scan:
\* CancelledError leaves both coroutines and nothing is returned.
CancelMinors ==
    /\ lpc \in {"probe", "scan"}
    /\ lpc' = "cancelled"
    /\ UNCHANGED <<index_pages, minors, next_minor_num, probes, scan_pages, available>>

(***************************************************************************)
(* The specifications                                                      *)
(***************************************************************************)
ModelsIdle ==
    /\ cons_in = DefaultConsIn /\ cons_out = <<>>
    /\ cons_item = DefaultConsItem /\ version_calls = <<>>

EnrichIdle == enr_in = DefaultEnrIn /\ enr_out = DefaultEnrOut

LegacyIdle == page_in = <<>> /\ page_out = NoSections
ModernIdle == mod_in = NoPage /\ mod_out = NotExtracted

PureIdle ==
    /\ kind = "none" /\ applied = FALSE
    /\ VersionIdle /\ ModelsIdle /\ EnrichIdle /\ LegacyIdle /\ ModernIdle

Init == InitCompile /\ FetchIdle /\ PureIdle /\ CacheIdle /\ MinorsIdle

Next ==
    \/ Construct /\ UNCHANGED <<lvars, cvars, fvars, pvars>>
    \/ Enter /\ UNCHANGED <<lvars, cvars, fvars, pvars>>
    \/ Discover /\ UNCHANGED <<lvars, cvars, fvars, pvars>>
    \/ LegacyAnswer /\ UNCHANGED <<lvars, cvars, fvars, pvars>>
    \/ ModernAnswer /\ UNCHANGED <<lvars, cvars, fvars, pvars>>
    \/ \E i \in 1..Len(unit) : SubmitUnit(i) /\ UNCHANGED <<lvars, cvars, fvars, pvars>>
    \/ \E i \in 1..Len(unit) : StartThreadUnit(i) /\ UNCHANGED <<lvars, cvars, fvars, pvars>>
    \/ \E i \in 1..Len(unit) : StartAsyncUnit(i) /\ UNCHANGED <<lvars, cvars, fvars, pvars>>
    \/ \E i \in 1..Len(unit) : NextFetchCall(i) /\ UNCHANGED <<lvars, cvars, fvars, pvars>>
    \/ \E i \in 1..Len(unit) : FinishUnit(i) /\ UNCHANGED <<lvars, cvars, fvars, pvars>>
    \/ CallAsCompleted /\ UNCHANGED <<lvars, cvars, fvars, pvars>>
    \/ Collect /\ UNCHANGED <<lvars, cvars, fvars, pvars>>
    \/ Finish /\ UNCHANGED <<lvars, cvars, fvars, pvars>>

Spec == Init /\ [][Next]_vars

InitMainRun == InitMain /\ FetchIdle /\ PureIdle /\ CacheIdle /\ MinorsIdle

NextMain ==
    \/ Next
    \/ Interrupt /\ UNCHANGED <<lvars, cvars, fvars, pvars>>
    \/ ExecutorExit /\ UNCHANGED <<lvars, cvars, fvars, pvars>>
    \/ CancelTasks /\ UNCHANGED <<lvars, cvars, fvars, pvars>>
    \/ Close /\ UNCHANGED <<lvars, cvars, fvars, pvars>>

SpecMain == InitMainRun /\ [][NextMain]_vars

InitProgressRun == InitProgress /\ FetchIdle /\ PureIdle /\ CacheIdle /\ MinorsIdle

SpecProgress == InitProgressRun /\ [][Next]_vars

InitC == InitCache /\ CompileIdle /\ PureIdle /\ MinorsIdle

NextCache ==
    \/ \E u \in Requesters, k \in PageKeys : GetCachedPage(u, k) /\ UNCHANGED <<lvars, ovars, pvars>>
    \/ \E u \in Requesters : FetchAttempt(u) /\ UNCHANGED <<lvars, ovars, pvars>>
    \/ \E u \in Requesters : ReturnPage(u) /\ UNCHANGED <<lvars, ovars, pvars>>
    \/ ClearCache /\ UNCHANGED <<lvars, ovars, pvars>>

SpecCache == InitC /\ [][NextCache]_vars

InitF == InitFetch /\ CompileIdle /\ PureIdle /\ CacheIdle /\ MinorsIdle

NextFetch ==
    \/ Attempt /\ UNCHANGED <<lvars, cvars, ovars, pvars>>
    \/ Backoff /\ UNCHANGED <<lvars, cvars, ovars, pvars>>

SpecFetch == InitF /\ [][NextFetch]_vars

InitV == InitVersion /\ ModelsIdle /\ EnrichIdle /\ LegacyIdle /\ CompileIdle /\ FetchIdle /\ CacheIdle /\ ModernIdle /\ MinorsIdle

NextVersion ==
    \/ Compare /\ UNCHANGED <<lvars, modern_io, cvars, ovars, fvars, models_io, enrich_io, legacy_io>>
    \/ Filter /\ UNCHANGED <<lvars, modern_io, cvars, ovars, fvars, models_io, enrich_io, legacy_io>>
    \/ SelectFetcher /\ UNCHANGED <<lvars, modern_io, cvars, ovars, fvars, models_io, enrich_io, legacy_io>>
    \/ Parse /\ UNCHANGED <<lvars, modern_io, cvars, ovars, fvars, models_io, enrich_io, legacy_io>>

SpecVersion == InitV /\ [][NextVersion]_vars

InitM == InitModels /\ VersionIdle /\ EnrichIdle /\ LegacyIdle /\ CompileIdle /\ FetchIdle /\ CacheIdle /\ ModernIdle /\ MinorsIdle

NextModels ==
    \/ Consolidate /\ UNCHANGED <<lvars, modern_io, cvars, ovars, fvars, version_io, enrich_io, legacy_io>>
    \/ AddVersion /\ UNCHANGED <<lvars, modern_io, cvars, ovars, fvars, version_io, enrich_io, legacy_io>>

SpecModels == InitM /\ [][NextModels]_vars

InitE == InitEnrich /\ VersionIdle /\ ModelsIdle /\ LegacyIdle /\ CompileIdle /\ FetchIdle /\ CacheIdle /\ ModernIdle /\ MinorsIdle

NextEnrich == Enrich /\ UNCHANGED <<lvars, modern_io, cvars, ovars, fvars, version_io, models_io, legacy_io>>

SpecEnrich == InitE /\ [][NextEnrich]_vars

InitL == InitLegacy /\ VersionIdle /\ ModelsIdle /\ EnrichIdle /\ CompileIdle /\ FetchIdle /\ CacheIdle /\ ModernIdle /\ MinorsIdle

NextLegacy == ParsePage /\ UNCHANGED <<lvars, modern_io, cvars, ovars, fvars, version_io, models_io, enrich_io>>

SpecLegacy == InitL /\ [][NextLegacy]_vars

InitMod == InitModern /\ VersionIdle /\ ModelsIdle /\ EnrichIdle /\ LegacyIdle /\ CompileIdle /\ FetchIdle /\ CacheIdle /\ MinorsIdle

NextModern ==
    \/ ParseNotesForVersion /\ UNCHANGED <<lvars, cvars, ovars, fvars, version_io, models_io, enrich_io, legacy_io>>
    \/ ParseBreakingForVersion /\ UNCHANGED <<lvars, cvars, ovars, fvars, version_io, models_io, enrich_io, legacy_io>>

SpecModern == InitMod /\ [][NextModern]_vars

InitMin == InitMinors /\ CompileIdle /\ FetchIdle /\ PureIdle /\ CacheIdle

NextMinors ==
    \/ ProbeMinor /\ UNCHANGED <<cvars, ovars, fvars, pvars>>
    \/ ScanMinor /\ UNCHANGED <<cvars, ovars, fvars, pvars>>
    \/ CancelMinors /\ UNCHANGED <<cvars, ovars, fvars, pvars>>

SpecMinors == InitMin /\ [][NextMinors]_vars

(***************************************************************************)
(* Properties                                                              *)
(***************************************************************************)
Units == 1..Len(unit)
ReleaseVersions(rs) == {rs[k].version : k \in 1..Len(rs)}
Done == pc = "done"

\* C1: at every moment of a compile_product run, in the thread-pool compiler
\* and in the coroutine compiler alike, the number of per-version units that
\* have started and not yet finished is at most the configured limit.
C1_InFlightAtMostLimit ==
    mode \in {"thread", "async"} => Cardinality(Running) <= max_workers

\* The limit is reached while a further unit waits for admission.
C1_Witness ==
    /\ max_workers = 2
    /\ Cardinality(Running) = max_workers
    /\ \E i \in Units : unit[i] = "pending"

\* The releases the responses determine: the notes of the units whose result
\* is a note, in the ascending order of the target versions.
ExpectedReleases ==
    LET computed == [i \in Units |->
                        fetch_complete_release(
                            get_fetcher_for_version(product, target_versions[i]),
                            target_versions[i], resp[i])]
        kept == SelectSeq(computed, LAMBDA o : o.how = "note")
    IN  [k \in 1..Len(kept) |-> kept[k].note]

\* C2: the releases list compile_product returns is a function of the fetch
\* responses alone, whatever the order in which the units completed: it is
\* strictly ascending by version, with at most one note per version.
C2_DeterministicSortedResult ==
    (Done /\ result.how = "returned") =>
        /\ result.releases = ExpectedReleases
        /\ \A j, k \in 1..Len(result.releases) :
              j < k => VLt(result.releases[j].version, result.releases[k].version)

\* Two notes were returned although the later version completed first.
C2_Witness ==
    /\ Done /\ result.how = "returned"
    /\ Len(result.releases) >= 2
    /\ \E a, b \in 1..Len(completion_order) :
          /\ a < b
          /\ completion_order[a] > completion_order[b]
          /\ outcome[completion_order[a]].how = "note"
          /\ outcome[completion_order[b]].how = "note"

\* C3: a unit that raises does not make compile_product raise: the run
\* returns, the failed version is absent from the result and the note of
\* every other unit is present as the unit produced it; when every unit
\* fails the result is empty and still returned.
C3_UnitFailureIsolated ==
    /\ pc \in {"discover", "legacy", "modern", "fetch", "done"} => result.how # "raised"
    /\ Done =>
        /\ result.how = "returned"
        /\ \A i \in Units :
              /\ outcome[i].how = "raised" =>
                    target_versions[i] \notin ReleaseVersions(result.releases)
              /\ outcome[i].how = "note" =>
                    \E k \in 1..Len(result.releases) : result.releases[k] = outcome[i].note
        /\ (\A i \in Units : outcome[i].how = "raised") => result.releases = <<>>

\* One unit raised, another produced a note, and the run returned.
C3_Witness ==
    /\ Done
    /\ \E i, j \in Units : outcome[i].how = "raised" /\ outcome[j].how = "note"

\* C4: the versions of the result are exactly the target versions whose
\* primary fetch gave a note; a version whose primary note is absent gives no
\* record, even when its auxiliary pages have content.
C4_ResultIsPrimaryPresent ==
    Done =>
        ReleaseVersions(result.releases) =
            {target_versions[i] : i \in {j \in Units : resp[j].primary.kind = "note"}}

\* A version with no primary note but with breaking changes on the auxiliary
\* page was dropped, beside a version that was kept.
C4_Witness ==
    /\ Done
    /\ \E i, j \in Units :
          /\ resp[i].primary.kind = "absent"
          /\ resp[i].breaking.kind = "section" /\ resp[i].breaking.items # <<>>
          /\ target_versions[i] \notin ReleaseVersions(result.releases)
          /\ target_versions[j] \in ReleaseVersions(result.releases)

Last(q) == q[Len(q)]
IsRetried(o) == o.kind = "transport" /\ o.detail \in {"ConnectError", "ReadTimeout"}

\* C5: fetch_page makes at most 3 attempts; when the earlier attempts fail
\* with a retried connection or timeout error (ConnectError, ReadTimeout) and
\* a later one succeeds, the content of that attempt is returned; when all 3
\* fail that way an error is raised and there is no fourth attempt.
C5_AtMostThreeAttempts ==
    /\ Len(history) <= 3
    /\ attempt_number <= 3
    /\ (history # <<>> /\ Last(history).kind = "ok") =>
          fstate = "returned" /\ fresult = Returned(Last(history).detail)
    /\ (Len(history) = 3 /\ \A i \in 1..3 : IsRetried(history[i])) =>
          fstate = "raised" /\ fresult.how = "raised"
    /\ (history # <<>> /\ IsRetried(Last(history)) /\ Len(history) < 3) =>
          fstate \in {"wait", "attempt"} /\ fresult.how = "pending"

\* fail, fail, succeed
C5_Witness ==
    /\ history = <<Transport("ConnectError"), Transport("ReadTimeout"), Ok("<html>")>>
    /\ fstate = "returned"
    /\ fresult = Returned("<html>")

\* C6: an attempt answered with an HTTP error status is the last attempt of
\* the call: 404 returns None without an error, every other error status is
\* raised to the caller at once.
C6_StatusErrorNotRetried ==
    \A i \in 1..Len(history) :
        history[i].kind = "status" =>
            /\ i = Len(history)
            /\ IF history[i].detail = "404"
               THEN fstate = "returned" /\ fresult = ReturnedNone
               ELSE fstate = "raised" /\ fresult = Raised("HTTPStatusError")

\* A 500 on the second attempt, after a retried failure, is raised at once.
C6_Witness ==
    /\ history = <<Transport("ConnectError"), Status("500")>>
    /\ fstate = "raised"

\* C7: a product without legacy docs always gets the modern fetcher; a
\* product with legacy docs gets the modern one exactly for versions at or
\* above 9.0.0 in the Version order, the legacy one below.
C7_FetcherSelection ==
    (kind = "select" /\ applied) =>
        sel_out =
            IF ~PRODUCTS(sel_in.product).has_legacy_docs THEN "modern"
            ELSE IF TupleLt(comparison_tuple(sel_in.version), <<9, 0, 0, 3, 0>>)
                 THEN "legacy" ELSE "modern"

\* A modern-only product asked for 8.5.0 gets the modern fetcher.
C7_Witness ==
    /\ kind = "select" /\ applied
    /\ sel_in = [product |-> "es-client-java", version |-> V8_5_0]
    /\ sel_out = "modern"

Count(q, x) == Cardinality({i \in 1..Len(q) : q[i] = x})
InRange(s, e, v) == VLt(s, v) /\ (~e.given \/ ~VLt(e.v, v))
SeqVEq(p, q) ==
    Len(p) = Len(q) /\ \A i \in 1..Len(p) : VEq(p[i], q[i])
Orderings(n) == {f \in [1..n -> 1..n] : \A i, j \in 1..n : f[i] = f[j] => i = j}

\* the parts of C8 that do not speak of the end of the range
C8_Common ==
    LET s == filt_in.start
        e == filt_in.end
        vs == filt_in.vs
    IN  /\ \A v \in FilterVersions :
              Count(filt_out, v) = IF InRange(s, e, v) THEN Count(vs, v) ELSE 0
        /\ \A i, j \in 1..Len(filt_out) : i < j => ~VLt(filt_out[j], filt_out[i])
        /\ \A i \in 1..Len(filt_out) : ~VEq(filt_out[i], s)
        /\ \A f \in Orderings(Len(vs)) :
              SeqVEq(filter_versions(s, e, [i \in 1..Len(vs) |-> vs[f[i]]]), filt_out)
        /\ filter_versions(s, e, filt_out) = filt_out

\* C8 as stated: filter_versions returns exactly the versions above start and
\* not above end, ascending, the same for every ordering of the input and
\* unchanged by a second filtering; start is excluded and end is included
\* whenever it is in the input.
C8_Original ==
    (kind = "filter" /\ applied) =>
        /\ C8_Common
        /\ (filt_in.end.given /\ \E i \in 1..Len(filt_in.vs) : VEq(filt_in.vs[i], filt_in.end.v))
              => \E k \in 1..Len(filt_out) : VEq(filt_out[k], filt_in.end.v)

\* C8 as amended: the same, with end included whenever it is in the input
\* and start < end.
C8_FilterVersions ==
    (kind = "filter" /\ applied) =>
        /\ C8_Common
        /\ (/\ filt_in.end.given
            /\ VLt(filt_in.start, filt_in.end.v)
            /\ \E i \in 1..Len(filt_in.vs) : VEq(filt_in.vs[i], filt_in.end.v))
              => \E k \in 1..Len(filt_out) : VEq(filt_out[k], filt_in.end.v)

\* An unsorted input holding start, end and a version between them.
C8_Witness ==
    /\ kind = "filter" /\ applied
    /\ filt_in = [start |-> V8_19_0, end |-> SomeEnd(V9_1_0),
                  vs |-> <<V9_1_0, V8_19_0, V9_0_0>>]
    /\ filt_out = <<V9_0_0, V9_1_0>>

\* C9: the target set is the set of discovered versions inside the range,
\* without the prereleases unless include_prereleases is set; for start
\* 9.0.0, no end and {8.19.0, 9.0.0, 9.1.0, 9.2.0-beta1} discovered, without
\* prereleases, it is {9.1.0}.
C9_TargetSet ==
    pc \in {"fetch", "done"} =>
        /\ Range(target_versions) =
              {v \in Range(all_versions) :
                  /\ InRange(start, end, v)
                  /\ (include_prereleases \/ v.prerelease.tag = "")}
        /\ Cardinality(Range(target_versions)) = Len(target_versions)
        /\ (/\ start = V9_0_0 /\ ~end.given /\ ~include_prereleases
            /\ Range(all_versions) = {V8_19_0, V9_0_0, V9_1_0, V9_2_0_beta1})
              => target_versions = <<V9_1_0>>

\* scenario C
C9_Witness ==
    /\ pc = "fetch"
    /\ start = V9_0_0 /\ ~end.given /\ ~include_prereleases
    /\ Range(all_versions) = {V8_19_0, V9_0_0, V9_1_0, V9_2_0_beta1}
    /\ target_versions = <<V9_1_0>>

\* the order of the claim: (major, minor, patch, tag rank, tag number)
TagRank(v) ==
    CASE v.prerelease.tag = "alpha" -> 0
      [] v.prerelease.tag = "beta" -> 1
      [] v.prerelease.tag = "rc" -> 2
      [] OTHER -> 3
OrderTuple(v) ==
    <<v.major, v.minor, v.patch, TagRank(v),
      IF v.prerelease.tag = "" THEN 0 ELSE IntOf(v.prerelease.digits)>>
SameBase(a, b) == a.major = b.major /\ a.minor = b.minor /\ a.patch = b.patch
BoolCount(bs) == Cardinality({i \in 1..Len(bs) : bs[i]})

\* C10: on parsed versions the comparison is the lexicographic order on
\* (major, minor, patch, tag rank, tag number) with alpha < beta < rc <
\* release; exactly one of a < b, a == b, b < a holds; a prerelease is below
\* its release; within a tag the lower number is less; a == b iff the
\* tuples are equal, and equal versions hash equally.
C10_VersionOrder ==
    (kind = "compare" /\ applied) =>
        LET a == cmp_in[1]
            b == cmp_in[2]
        IN  /\ cmp_out.lt = TupleLt(OrderTuple(a), OrderTuple(b))
            /\ cmp_out.eq = (OrderTuple(a) = OrderTuple(b))
            /\ BoolCount(<<cmp_out.lt, cmp_out.eq, cmp_out.gt>>) = 1
            /\ cmp_out.gt = VLt(b, a)
            /\ cmp_out.le = (cmp_out.lt \/ cmp_out.eq)
            /\ cmp_out.ge = (cmp_out.gt \/ cmp_out.eq)
            /\ (SameBase(a, b) /\ a.prerelease.tag # "" /\ b.prerelease.tag = "")
                  => cmp_out.lt
            /\ (SameBase(a, b) /\ a.prerelease.tag # "" /\ a.prerelease.tag = b.prerelease.tag
                    /\ IntOf(a.prerelease.digits) < IntOf(b.prerelease.digits))
                  => cmp_out.lt
            /\ (SameBase(a, b) /\ <<a.prerelease.tag, b.prerelease.tag>> \in
                    {<<"alpha", "beta">>, <<"alpha", "rc">>, <<"beta", "rc">>})
                  => cmp_out.lt
            /\ cmp_out.eq => cmp_out.hash_eq

\* 9.0.0-rc1 compared with 9.0.0-rc10: same tag, the lower number is less.
C10_Witness ==
    /\ kind = "compare" /\ applied
    /\ cmp_in = <<Version(9, 0, 0, Pre("rc", <<1>>)),
                  Version(9, 0, 0, Pre("rc", <<1, 0>>))>>
    /\ cmp_out.lt /\ ~cmp_out.eq /\ ~cmp_out.gt

(***************************************************************************)
(* Version.parse: round trip and accepted texts                            *)
(***************************************************************************)
ParseApplied == kind = "parse" /\ applied

\* C11: a text accepted by Version.parse gives a Version whose str() is
\* accepted again and parses to an equal Version.
C11_ParseRoundTrip ==
    (ParseApplied /\ parse_out.ok) =>
        /\ parse_out.again.ok
        /\ VEq(parse_out.again.version, parse_out.version)

\* " \t08.17.1.BETA01" is parsed, printed as "8.17.1-beta01" and parsed again
C11_Witness ==
    /\ ParseApplied
    /\ parse_in = <<"\t", " ", "0", "8", ".", "1", "7", ".", "1", ".", "B", "E", "T", "A", "0", "1">>
    /\ parse_out.ok
    /\ parse_out.text = <<"8", ".", "1", "7", ".", "1", "-", "b", "e", "t", "a", "0", "1">>
    /\ parse_out.again.ok

\* The shape of a version text, said on the text itself: three numbers with
\* dots between them, then nothing or a separator, a tag and a number.
IsNumber(q) == q # <<>> /\ \A i \in 1..Len(q) : IsDigit(q[i])
IsTag(q) == \E t \in PrereleaseTags : lower(q) = tag_chars(t)
Separators(required) ==
    IF required THEN {<<"-">>, <<".">>} ELSE {<<>>, <<"-">>, <<".">>}
IsPrereleaseSuffix(u, required) ==
    \E sep \in Separators(required) :
        \E i \in Len(sep)..Len(u) :
            /\ SubSeq(u, 1, Len(sep)) = sep
            /\ IsTag(SubSeq(u, Len(sep) + 1, i))
            /\ IsNumber(SubSeq(u, i + 1, Len(u)))
IsVersionText(q, required) ==
    \E i \in 1..Len(q) :
        /\ q[i] = "." /\ IsNumber(SubSeq(q, 1, i - 1))
        /\ \E j \in (i + 1)..Len(q) :
            /\ q[j] = "." /\ IsNumber(SubSeq(q, i + 1, j - 1))
            /\ \E k \in (j + 1)..Len(q) :
                /\ IsNumber(SubSeq(q, j + 1, k))
                /\ \/ k = Len(q)
                   \/ IsPrereleaseSuffix(SubSeq(q, k + 1, Len(q)), required)
\* the same shape with white space allowed before and after
IsPaddedVersionText(s, required) ==
    \E a \in 0..Len(s) :
        /\ \A i \in 1..a : s[i] \in Whitespace
        /\ \E b \in a..Len(s) :
            /\ \A i \in (b + 1)..Len(s) : s[i] \in Whitespace
            /\ IsVersionText(SubSeq(s, a + 1, b), required)

\* C12 as stated: parse accepts exactly the texts major.minor.patch, optionally
\* followed by one separator '-' or '.', a tag and a number.
C12_Original ==
    ParseApplied => (parse_out.ok <=> IsVersionText(parse_in, TRUE))

\* C12: parse accepts exactly the texts that, with the white space around them
\* removed, are major.minor.patch optionally followed by a tag alpha, beta or
\* rc in any letter case and a number, the separator '-' or '.' before the tag
\* being optional; a tag without a number is rejected.
C12_ParseAcceptsGrammar ==
    ParseApplied => (parse_out.ok <=> IsPaddedVersionText(parse_in, FALSE))

\* "9.0.0-rc", a tag without a number, is rejected
C12_Witness ==
    /\ ParseApplied
    /\ parse_in = <<"9", ".", "0", ".", "0", "-", "r", "c">>
    /\ ~parse_out.ok

(***************************************************************************)
(* Consolidation                                                           *)
(***************************************************************************)
\* the items of the requested section in all the releases
SectionItems ==
    UNION {Range(cons_in.releases[r].sections[cons_in.section_type].items) :
              r \in 1..Len(cons_in.releases)}

\* the deduplication key, said as a relation: the same pull-request number
\* when there is one, else the same description once lower-cased, trimmed
\* and cut
SameKey(x, y) ==
    IF x.pr_number # 0 \/ y.pr_number # 0
    THEN x.pr_number = y.pr_number
    ELSE cut(strip(lower(x.description)), MaxKeyLength)
             = cut(strip(lower(y.description)), MaxKeyLength)

Consolidated == kind = "consolidate" /\ applied

\* C13: every item of the requested section is represented by exactly one
\* returned ConsolidatedItem, the one with its key; two items share it iff
\* they have the same key, and as many are returned as there are keys.
C13_OneItemPerKey ==
    Consolidated =>
        /\ \A x \in SectionItems :
              Cardinality({i \in 1..Len(cons_out) : SameKey(x, cons_out[i])}) = 1
        /\ \A i \in 1..Len(cons_out) : \E x \in SectionItems : SameKey(x, cons_out[i])
        /\ Len(cons_out) = Cardinality({{y \in SectionItems : SameKey(x, y)} :
                                            x \in SectionItems})

\* "Fix A" and " fix a " without pull request in one release, and a long
\* description in each of two releases, equal up to the cut: one item each
C13_Witness ==
    /\ Consolidated
    /\ cons_in.section_type = "bug_fixes"
    /\ Len(cons_in.releases) = 2
    /\ \/ /\ cons_in.releases[1].sections["bug_fixes"].items
                 = <<ReleaseItem(FixA, 0), ReleaseItem(FixAPadded, 0)>>
          /\ cons_in.releases[2].sections["bug_fixes"].items = <<ReleaseItem(FixB, 555)>>
          /\ Len(cons_out) = 2
       \/ /\ cons_in.releases[1].sections["bug_fixes"].items
                 = <<ReleaseItem(LongA, 0), ReleaseItem(FixA, 555)>>
          /\ cons_in.releases[2].sections["bug_fixes"].items = <<ReleaseItem(LongB, 0)>>
          /\ Len(cons_out) = 2

StrictlyAscending(vs) == \A i \in 1..(Len(vs) - 1) : VLt(vs[i], vs[i + 1])
Holds(vs, v) == \E i \in 1..Len(vs) : VEq(vs[i], v)

ScenarioB ==
    [releases |-> <<ConsRelease(V8_17_0, ReleaseSection(<<ReleaseItem(FixA, 555)>>)),
                    ConsRelease(V8_17_1, ReleaseSection(<<ReleaseItem(FixA, 555)>>))>>,
     section_type |-> "bug_fixes"]

\* C14: the version list of a ConsolidatedItem is strictly ascending, so
\* without duplicate, after every sequence of add_version calls and in every
\* returned item, and it holds exactly the versions given to it: those of the
\* releases where an item with its key occurs. PR #555 in 8.17.0 and 8.17.1
\* gives one item with the versions [8.17.0, 8.17.1].
C14_VersionsAscendingExact ==
    /\ kind = "item" =>
          /\ StrictlyAscending(cons_item.versions)
          /\ \A v \in ItemVersions : Holds(cons_item.versions, v) <=> Holds(version_calls, v)
    /\ Consolidated =>
          /\ \A i \in 1..Len(cons_out) :
                /\ StrictlyAscending(cons_out[i].versions)
                /\ \A v \in ItemVersions :
                      Holds(cons_out[i].versions, v) <=>
                          \E r \in 1..Len(cons_in.releases) :
                              /\ VEq(cons_in.releases[r].version, v)
                              /\ \E x \in Range(cons_in.releases[r]
                                                    .sections[cons_in.section_type].items) :
                                    SameKey(x, cons_out[i])
          /\ cons_in = ScenarioB =>
                cons_out = <<ConsolidatedItem(FixA, <<V8_17_0, V8_17_1>>, 555)>>

\* scenario B, consolidated
C14_Witness ==
    /\ Consolidated
    /\ cons_in = ScenarioB
    /\ Len(cons_out) = 1
    /\ cons_out[1].versions = <<V8_17_0, V8_17_1>>

(***************************************************************************)
(* Enrichment                                                              *)
(***************************************************************************)
Enriched == kind = "enrich" /\ applied
BreakingBefore == enr_in.primary.sections["breaking_changes"]

\* C15: merging the same breaking-changes answer a second time leaves the
\* breaking-changes section as the first merge left it, the same items in
\* the same order, whether the note had the section or not.
C15_MergeIdempotent ==
    Enriched => enr_out.twice["breaking_changes"] = enr_out.once["breaking_changes"]

\* a note with "Drop X" merged with the answer "Drop X", "New limit": one
\* item is appended, and none by the second merge
C15_Witness ==
    /\ Enriched
    /\ BreakingBefore = ReleaseSection(<<ReleaseItem(DropX, 0)>>)
    /\ enr_in.breaking = AuxSection(<<ReleaseItem(DropX, 0), ReleaseItem(NewLimit, 0)>>)
    /\ enr_out.once["breaking_changes"].items
           = <<ReleaseItem(DropX, 0), ReleaseItem(NewLimit, 0)>>
    /\ enr_out.twice = enr_out.once

\* C16: when the note has a breaking-changes section, no item appended by the
\* merge has the description of an item present before it, letter case set
\* aside.
C16_MergeIgnoresCase ==
    (Enriched /\ BreakingBefore.present) =>
        LET before == BreakingBefore.items
            after == enr_out.once["breaking_changes"].items
        IN  \A i \in (Len(before) + 1)..Len(after) :
                \A j \in 1..Len(before) :
                    lower(after[i].description) # lower(before[j].description)

\* the answers with every raised exception replaced by None
Quiet(answer) == IF answer.kind = "raise" THEN AuxAbsent ELSE answer
Quieted(r) == [r EXCEPT !.breaking = Quiet(@), !.deprecations = Quiet(@),
                        !.known_issues = Quiet(@)]
StepsOf(fetcher) ==
    IF fetcher = "modern" THEN <<"breaking_changes", "deprecations", "known_issues">>
    ELSE <<"breaking_changes">>
SomeStepRaises ==
    \/ enr_in.breaking.kind = "raise"
    \/ /\ enr_in.fetcher = "modern"
       /\ \/ enr_in.deprecations.kind = "raise"
          \/ enr_in.known_issues.kind = "raise"

\* C18: when an enrichment fetch raises, the unit still returns the note,
\* every enrichment fetch of the fetcher is made, the sections of the primary
\* note are kept, and the note is the one the other answers give: what
\* the steps before the failure merged stays and the steps after it merge.
C18_EnrichmentFailureContained ==
    (Enriched /\ SomeStepRaises) =>
        /\ enr_out.unit.how = "note"
        /\ enr_out.attempted = StepsOf(enr_in.fetcher)
        /\ \A t \in SectionTypes :
              enr_in.primary.sections[t].present =>
                  /\ enr_out.unit.note.sections[t].present
                  /\ SubSeq(enr_out.unit.note.sections[t].items, 1,
                            Len(enr_in.primary.sections[t].items))
                         = enr_in.primary.sections[t].items
        /\ (enr_in.breaking.kind = "section" /\ ~is_empty(enr_in.breaking)
                /\ ~BreakingBefore.present) =>
              enr_out.unit.note.sections["breaking_changes"].items = enr_in.breaking.items
        /\ (enr_in.fetcher = "modern" /\ enr_in.known_issues.kind = "section") =>
              enr_out.unit.note.sections["known_issues"].items = enr_in.known_issues.items
        /\ enr_out.unit.note.sections
              = fetch_complete_release(enr_in.fetcher, V9_0_0, Quieted(enr_in)).note.sections

\* the deprecations fetch raises between a merged breaking-changes answer and
\* an inserted known-issues answer
C18_Witness ==
    /\ Enriched
    /\ enr_in.fetcher = "modern"
    /\ ~BreakingBefore.present
    /\ enr_in.breaking = AuxSection(<<ReleaseItem(DropX, 0)>>)
    /\ enr_in.deprecations = AuxRaise
    /\ enr_in.known_issues.kind = "section"
    /\ enr_out.unit.how = "note"
    /\ enr_out.unit.note.sections["breaking_changes"].present
    /\ enr_out.unit.note.sections["known_issues"].present

(***************************************************************************)
(* The legacy extractor                                                    *)
(***************************************************************************)
Extracted == kind = "legacy" /\ applied

\* a <ul> under the heading "Bug fixes" with the item "Fixed crash (#1234)"
ScenarioA ==
    <<Heading("h2", <<"B", "u", "g", " ", "f", "i", "x", "e", "s">>),
      List("ul", <<ListItem(<<"F", "i", "x", "e", "d", " ", "c", "r", "a", "s", "h", " ", "(", "#", "1", "2", "3", "4", ")">>, 0)>>)>>

\* the number a '#NNNN' reference of the text carries, 0 without reference
FirstReference(text) ==
    IF \E i \in 1..Len(text) : text[i] = "#" /\ i < Len(text) /\ IsDigit(text[i + 1])
    THEN LET i == CHOOSE k \in 1..Len(text) :
                      /\ text[k] = "#" /\ k < Len(text) /\ IsDigit(text[k + 1])
                      /\ \A m \in 1..(k - 1) :
                            ~(text[m] = "#" /\ IsDigit(text[m + 1]))
             j == CHOOSE k \in (i + 1)..Len(text) :
                      /\ \A m \in (i + 1)..k : IsDigit(text[m])
                      /\ (k = Len(text) \/ ~IsDigit(text[k + 1]))
         IN  int(SubSeq(text, i + 1, j))
    ELSE 0

\* C17: an item of a <ul> under a section heading, without hyperlink and with
\* a '#NNNN' reference in its text, gets the pr_number NNNN, and the page of
\* scenario A gives a bug_fixes section with the one item "Fixed crash",
\* pr_number 1234.
C17_LegacyItemExtraction ==
    Extracted =>
        /\ (Len(page_in) = 2 /\ page_in[1] = Heading("h2", <<"B", "u", "g", " ", "f", "i", "x", "e", "s">>)
               /\ page_in[2].name = "ul") =>
              /\ Len(page_out["bug_fixes"].items) = Len(page_in[2].items)
              /\ \A i \in 1..Len(page_in[2].items) :
                    (page_in[2].items[i].pull = 0
                        /\ FirstReference(page_in[2].items[i].text) # 0) =>
                       page_out["bug_fixes"].items[i].pr_number
                           = FirstReference(page_in[2].items[i].text)
        /\ page_in = ScenarioA =>
              page_out = [NoSections EXCEPT !["bug_fixes"] =
                             ReleaseSection(<<ReleaseItem(FixedCrash, 1234)>>)]

(***************************************************************************)
(* The end version of the result, and the fatal errors                     *)
(***************************************************************************)
\* the discovered versions the range and the prerelease switch let through
TargetSet ==
    {v \in Range(all_versions) :
        InRange(start, end, v) /\ (include_prereleases \/ v.prerelease.tag = "")}

\* C19: the end_version of the result is the requested end when one is given;
\* else the greatest version of the target set, fetched or not; else, with
\* nothing discovered or nothing in the target set, the start version.
C19_EndVersion ==
    (Done /\ result.how = "returned") =>
        /\ end.given => result.end_version = end.v
        /\ (~end.given /\ TargetSet # {}) =>
              /\ result.end_version \in TargetSet
              /\ \A v \in TargetSet : VLe(v, result.end_version)
        /\ (~end.given /\ TargetSet = {}) => result.end_version = start

\* no end requested, and the greatest target version 9.1.0 gave no release
C19_Witness ==
    /\ Done /\ result.how = "returned"
    /\ ~end.given
    /\ V9_0_0 \in TargetSet /\ V9_1_0 \in TargetSet
    /\ result.end_version = V9_1_0
    /\ V9_1_0 \notin ReleaseVersions(result.releases)
    /\ V9_0_0 \in ReleaseVersions(result.releases)

\* a text Version.parse rejects, said on the text
Unparsable(text) == ~IsPaddedVersionText(text, FALSE)
BadArguments ==
    \/ Unparsable(start_version)
    \/ end_version.given /\ end_version.text # <<>> /\ Unparsable(end_version.text)

\* C20: an unknown product stops at the constructor and an unparsable start
\* or end text makes compile_product raise, both before any fetch call and
\* before discovery; with a known product and parsable texts compile_product
\* never raises, whatever discovery and the units do. An empty end text
\* counts as no end.
C20_FatalErrorsBeforeNetwork ==
    /\ pc = "rejected" => (product \notin Products /\ fetch_calls = 0 /\ result = NotReturned)
    /\ product \notin Products => pc \in {"construct", "rejected"}
    /\ pc = "failed" =>
          /\ result.how = "raised" /\ BadArguments
          /\ fetch_calls = 0 /\ all_versions = <<>>
    /\ (product \in Products /\ BadArguments) => pc \in {"construct", "enter", "failed"}
    /\ result.how = "raised" => pc = "failed"
    /\ Done => result.how = "returned"

\* compile_product raised on the end version "9.x" without a fetch call
C20_Witness ==
    /\ pc = "failed"
    /\ result.how = "raised"
    /\ ~Unparsable(start_version)
    /\ end_version.given /\ Unparsable(end_version.text) /\ end_version.text # <<>>
    /\ fetch_calls = 0

(***************************************************************************)
(* The user's interrupt and the progress callback                          *)
(***************************************************************************)
\* C21: after the interrupt has arrived, no unit that had not started when
\* it arrived is started: such a unit stays unsubmitted or pending, or is
\* cancelled.
C21_InterruptStopsNewWork ==
    interrupted =>
        \A i \in 1..Len(unit) :
            at_interrupt[i] \in {"unsubmitted", "pending"}
                => unit[i] \in {"unsubmitted", "pending", "cancelled"}

\* C22: a progress callback that is given is invoked exactly once after each
\* unit the loop has taken, whether the unit gave a note, gave nothing or
\* raised: it has received (1, T), (2, T), ... in that order, up to (T, T) at
\* the return for T target versions, and nothing when it is not given. The
\* result returned is the one the responses determine, with or without it.
C22_ProgressCallback ==
    /\ progress = IF callback
                  THEN [k \in 1..completed |-> <<k, Len(target_versions)>>]
                  ELSE <<>>
    /\ (Done /\ all_versions # <<>>) => completed = Len(target_versions)
    /\ (Done /\ result.how = "returned") =>
          result = Compiled(start, actual_end(start, end, target_versions),
                            ExpectedReleases)

(***************************************************************************)
(* The deprecations and known-issues steps                                 *)
(***************************************************************************)
OptionalSteps == {"deprecations", "known_issues"}

\* C23: for deprecations and for known issues, when the fetcher has the
\* operation and the auxiliary page gives a non-empty section, the note ends
\* with that section unless its section of that type held at least one item
\* before the step, and a section that held an item is left as it was.
C23_InsertUnlessPopulated ==
    Enriched =>
        \A type \in OptionalSteps :
            LET before == enr_in.primary.sections[type]
                answer == enr_in[type]
                after == enr_out.unit.note.sections[type]
            IN  /\ Len(before.items) > 0 => after = before
                /\ (/\ has_optional_fetches(enr_in.fetcher)
                    /\ answer.kind = "section" /\ ~is_empty(answer)
                    /\ Len(before.items) = 0)
                      => after = ReleaseSection(answer.items)

(***************************************************************************)
(* The two compilers                                                       *)
(***************************************************************************)
\* The thread-pool compile_product on the arguments and the clients' answers
\* of the run, its units run one after the other in the order of submission:
\* the versions it finds, the versions it compiles and how it ends.
SequentialArguments == parse_arguments(start_version, end_version)

SequentialFound == discover_versions(product, discovery.legacy, discovery.modern)

SequentialTargets ==
    target_versions_of(SequentialArguments.start, SequentialArguments.end,
                       include_prereleases, SequentialFound)

SequentialResult ==
    LET arguments == SequentialArguments
        targets == SequentialTargets
        outcomes == [i \in 1..Len(targets) |->
                        fetch_complete_release(
                            get_fetcher_for_version(product, targets[i]),
                            targets[i], resp[i])]
        kept == SelectSeq(outcomes, LAMBDA o : o.how = "note")
        notes == [k \in 1..Len(kept) |-> kept[k].note]
    IN  IF ~arguments.ok THEN CompileRaised
        ELSE IF SequentialFound = <<>>
        THEN Compiled(arguments.start,
                      IF arguments.end.given THEN arguments.end.v ELSE arguments.start,
                      <<>>)
        ELSE Compiled(arguments.start,
                      actual_end(arguments.start, arguments.end, targets),
                      sort_releases(notes))

\* C24: for the same product, range texts, include_prereleases flag and the
\* same answers of the fetch clients, compile_product of the thread-pool
\* compiler and of the coroutine compiler end alike: each compiles the
\* versions the sequential run on these inputs compiles and ends as it does,
\* with the same start and end version and the same releases in the same
\* order, or with the same exception.
C24_SameOrchestration ==
    (mode \in {"thread", "async"} /\ pc \in {"done", "failed"}) =>
        /\ (SequentialArguments.ok /\ SequentialFound # <<>>) =>
              target_versions = SequentialTargets
        /\ result = SequentialResult

\* The coroutine compiler returned two releases of versions found by the
\* legacy and by the modern client, its units having finished in the
\* reverse of the order in which the thread pool starts them.
C24_Witness ==
    /\ mode = "async" /\ Done
    /\ ~discovery.legacy.raised /\ discovery.legacy.versions # <<>>
    /\ ~discovery.modern.raised /\ discovery.modern.versions # <<>>
    /\ Len(result.releases) >= 2
    /\ Len(completion_order) >= 2
    /\ completion_order[1] > completion_order[2]
    /\ \E k \in 1..Len(result.releases) :
          result.releases[k].version \in Range(discovery.legacy.versions)

(***************************************************************************)
(* Discovery                                                               *)
(***************************************************************************)
Discovered == pc \in {"fetch", "done"}
HasLegacy == PRODUCTS(product).has_legacy_docs /\ get_fetchers(product).legacy # "none"
LegacyFound ==
    IF HasLegacy /\ ~discovery.legacy.raised THEN Range(discovery.legacy.versions) ELSE {}
ModernFound ==
    IF ~discovery.modern.raised THEN Range(discovery.modern.versions) ELSE {}

\* C25: discover_versions never raises and returns, each version once (two
\* versions that compare equal are one version), the
\* versions the legacy client reported (it is queried only for a product with
\* legacy docs) and those the modern client reported; the versions of a
\* client whose query raised are missing and those of the other are returned,
\* and the list is empty when both queries raised.
C25_DiscoveryUnion ==
    /\ pc \in {"discover", "legacy", "modern"} => result.how = "running"
    /\ pc = "legacy" => (HasLegacy /\ fetch_calls = 1)
    /\ pc = "modern" => fetch_calls = (IF HasLegacy THEN 2 ELSE 1)
    /\ Discovered =>
        /\ result.how # "raised"
        /\ Range(all_versions) \subseteq LegacyFound \cup ModernFound
        /\ \A v \in LegacyFound \cup ModernFound :
              \E k \in 1..Len(all_versions) : VEq(all_versions[k], v)
        /\ \A j, k \in 1..Len(all_versions) :
              VEq(all_versions[j], all_versions[k]) => j = k
        /\ (discovery.modern.raised /\ (HasLegacy => discovery.legacy.raised))
              => all_versions = <<>>
        /\ (pc = "fetch" /\ \A i \in Units : unit[i] \in {"unsubmitted", "pending"})
              => fetch_calls = IF HasLegacy THEN 2 ELSE 1

\* The legacy query raised, the modern one reported three versions, and the
\* run went on with them.
C25_Witness ==
    /\ pc = "fetch" /\ HasLegacy
    /\ discovery.legacy.raised /\ ~discovery.modern.raised
    /\ Len(all_versions) = 3

(***************************************************************************)
(* The page cache                                                          *)
(***************************************************************************)
Fetching(k) == {u \in Requesters : call[u].at = "fetching" /\ call[u].key = k}
OnlyContent(k) == fetch_results[k] \subseteq {Returned(PageOf(k))}
StoredResults(k) == {r \in fetch_results[k] : r.how # "raised"}

\* a step in which requester u enters _get_cached_page for key k
Enters(u, k) ==
    /\ call[u].at \in {"idle", "returned", "raised"}
    /\ call'[u] # call[u]
    /\ call'[u].key = k

\* C26: units that request one page of one client at the same time cause at
\* worst several fetches of it. While every fetch of the page made so far
\* gave its content, the slot of the key is empty or holds that content and
\* every call returned for the key gave that content; and no call that
\* enters once the slot is populated starts a fetch.
C26_BenignCacheRace ==
    /\ [](\A k \in PageKeys :
            OnlyContent(k) =>
                /\ cached_pages[k].stored => cached_pages[k].page = Returned(PageOf(k))
                /\ \A u \in Requesters :
                      (call[u].at = "returned" /\ call[u].key = k)
                          => call[u].result = Returned(PageOf(k)))
    /\ [][\A k \in PageKeys, u \in Requesters :
            (cached_pages[k].stored /\ Enters(u, k)) => call'[u].at # "fetching"]_vars

\* Two units have fetched the release-notes page at the same time, each with
\* a fetch of its own, and both have returned its content.
C26_Witness ==
    /\ \A u \in {1, 2} :
          /\ call[u] = Call("returned", "release_notes", 1, FALSE,
                            Returned(PageOf("release_notes")))
    /\ requests = 2 /\ ~cleared
    /\ OnlyContent("release_notes")

\* a step of clear_cache, which nothing in the package calls
ClearStep == cleared' /\ cached_pages' = EmptyCache /\ call' = call

\* C30: a key is in the cache only when a fetch of its page has completed
\* with a text or with a 404, it is in the cache from then on in a client
\* whose clear_cache has not been called, and it holds what such a fetch
\* returned (None for the 404). A call that finds the key returns the value
\* of the slot and makes no fetch, and with no fetch of the key in flight
\* the slot keeps its value in every step other than clear_cache, so later
\* calls return the same value. A fetch that ends in an exception leaves
\* the cache as it was, and a call that does not find the key starts a
\* fetch at its first attempt, which makes at most MaxAttempts.
C30_CachedOnCompletion ==
    /\ [](/\ \A k \in PageKeys :
              /\ cached_pages[k].stored => StoredResults(k) # {}
              /\ (~cleared /\ StoredResults(k) # {}) => cached_pages[k].stored
              /\ cached_pages[k].stored => cached_pages[k].page \in StoredResults(k)
          /\ \A u \in Requesters :
              /\ call[u].hit => call[u].attempt_number = 0
              /\ (call[u].hit /\ call[u].at = "returned")
                    => call[u].result \in StoredResults(call[u].key)
              /\ call[u].at = "fetching" => call[u].attempt_number \in 1..MaxAttempts)
    /\ [][\A k \in PageKeys :
            /\ (cached_pages[k].stored /\ Fetching(k) = {} /\ ~ClearStep)
                  => cached_pages'[k] = cached_pages[k]
            /\ \A u \in Requesters :
                  /\ (cached_pages[k].stored /\ Enters(u, k))
                        => /\ call'[u].hit
                           /\ call'[u].at \in {"read", "returned"}
                           /\ fetch_results' = fetch_results
                  /\ (call'[u] # call[u] /\ call'[u].at = "returned" /\ call'[u].key = k)
                        => call'[u].result = cached_pages'[k].page
                  /\ (call[u].at = "fetching" /\ call'[u].at = "raised")
                        => cached_pages' = cached_pages
                  /\ (~cached_pages[k].stored /\ Enters(u, k))
                        => /\ call'[u].at = "fetching"
                           /\ call'[u].attempt_number = 1]_vars

\* The first fetch of a page ended in an exception after its retries, a
\* later call fetched again and met a 404, and a third call has returned the
\* cached None without a fetch.
C30_Witness ==
    /\ \E k \in PageKeys :
          /\ fetch_results[k] = {Raised("RetryError"), ReturnedNone}
          /\ cached_pages[k] = [stored |-> TRUE, page |-> ReturnedNone]
          /\ \E u \in Requesters :
                call[u] = Call("returned", k, 0, TRUE, ReturnedNone)
    /\ requests = 3 /\ ~cleared

\* the items written in the blocks of version v on the page given
ItemsLocatedIn(blocks, v) ==
    {parse_modern_item(e.items[1]) :
        e \in {b.elements[i] : b \in {blocks[k] : k \in {k \in 1..Len(blocks) : blocks[k].version = v}},
                               i \in 2..3} \cap {Ul(<<ItemOf(v)>>)}}

\* the items of the note the extractor returned
ExtractedItems ==
    UNION {{mod_out.sections[t].items[i] : i \in 1..Len(mod_out.sections[t].items)} :
              t \in SectionTypes}

\* C27: the note the modern extractor returns for a version holds only
\* items written between that version's anchor or heading and the next
\* version's, for every pair of versions on the page.
C27_OnlyOwnBlock ==
    (kind = "release notes" /\ applied /\ mod_out.how = "note")
        => ExtractedItems \subseteq ItemsLocatedIn(mod_in.blocks, mod_in.version)

\* whether the block of the version asked for holds the marker paragraph
MarkerInBlock ==
    \E k \in 1..Len(mod_in.blocks) :
        /\ mod_in.blocks[k].version = mod_in.version
        /\ \E i \in 2..Len(mod_in.blocks[k].elements) : mod_in.blocks[k].elements[i] = Marker

\* C29: when the version's block on the breaking-changes page holds the
\* "no breaking changes" paragraph, the section returned has no items,
\* whatever else the block holds.
C29_MarkerGivesEmptySection ==
    (kind = "breaking changes" /\ applied /\ MarkerInBlock)
        => (mod_out.how = "section" /\ mod_out.items = <<>>)

\* how many consecutive minors above the last known one have an index page
RECURSIVE ExistingRun(_)
ExistingRun(n) ==
    IF n < MaxNewMinors /\ index_pages[last_known_minor + n + 1] = "page"
    THEN ExistingRun(n + 1) ELSE n

\* the minors from the last known one up to n above it
MinorsAbove(n) == [i \in 1..n |-> last_known_minor + i]

\* C28 as stated: the minors returned are the known ones followed by the
\* whole run of consecutive higher minors whose index page exists.
C28_WholeRunReturned ==
    lpc \in {"scan", "returned"}
        => minors = KNOWN_8X_MINORS \o MinorsAbove(ExistingRun(0))

\* C28 amended: probes go one at a time in increasing minor order from the
\* minor after the last known one, each probe but the last found a page, at
\* most four probes are made, and the minors returned are the known ones
\* followed by the first four at most of the run of consecutive higher
\* minors whose index page exists.
C28_BoundedProbing ==
    /\ \A i \in 1..Len(probes) : probes[i] = last_known_minor + i
    /\ \A i \in 1..(Len(probes) - 1) : index_pages[probes[i]] = "page"
    /\ Len(probes) <= ProbeLimit
    /\ lpc \in {"scan", "returned"}
           => /\ minors = KNOWN_8X_MINORS
                     \o MinorsAbove(IF ExistingRun(0) < ProbeLimit THEN ExistingRun(0) ELSE ProbeLimit)
              /\ Len(probes) = (IF ExistingRun(0) < ProbeLimit THEN ExistingRun(0) + 1 ELSE ProbeLimit)

\* a run of two new minors ended by a missing page, with a page above it
C28_Witness ==
    /\ lpc = "returned"
    /\ ExistingRun(0) = 2
    /\ index_pages[last_known_minor + 4] = "page"
    /\ probes = MinorsAbove(3)
    /\ Len(available.versions) > 0
====
